---- MODULE Spec2Model ----
(***************************************************************************)
(* SPIR-V Visualizer: the binary stream decoder (source/main.js,           *)
(* parseBinaryStream) and the grammar helpers it uses (source/spirv.js).   *)
(*                                                                         *)
(* A 32-bit word is a pair <<hi, lo>> of 16-bit halves, so that the whole  *)
(* range 0 .. 2^32-1 is covered and the first word of an instruction is    *)
(* <<length field, opcode>>.  JavaScript's undefined is the pair Undefined *)
(* where a word is expected and NoIndex where an instruction index is      *)
(* expected.  A JavaScript Map is a function whose DOMAIN is the key set.  *)
(***************************************************************************)
EXTENDS Integers, Sequences, FiniteSets, TLC

VARIABLES
    binary,                  \* the buffer handed to parseBinaryStream
    pc,                      \* "idle", "pass1", "pass2", "done" or "fatal"
    error,                   \* which assert / exception ended the decode
    instructionMap,          \* main.js:22
    resultToInstructionMap,  \* main.js:24
    idConsumers,             \* main.js:27
    opNameMap,               \* main.js:29
    debugStringMap,          \* main.js:31
    constantValues,          \* main.js:33
    ResultToExtImport,       \* spirv.js:37
    loc,                     \* the locals of parseBinaryStream
    inputDiv,                \* main.js:19: the text box, its style.display and value
    assembleCall,            \* the last call of assemble: arguments and outcome
    grammar,                 \* spirv.js:18, 62-63: JsonIsReady, jsonRefCount, the files loaded
    liveDagData,             \* main.js:824
    seenDagNodesSet,         \* main.js:898
    dagCall,                 \* the last click on the display: handler and outcome
    tests                    \* tests.js:20-26: the globals of the test harness

\* what a decode, an assembly and the text box leave alone
pageVars == <<grammar, liveDagData, seenDagNodesSet, dagCall, tests>>

vars == <<binary, pc, error, instructionMap, resultToInstructionMap, idConsumers,
          opNameMap, debugStringMap, constantValues, ResultToExtImport, loc,
          inputDiv, assembleCall, grammar, liveDagData, seenDagNodesSet, dagCall, tests>>

-----------------------------------------------------------------------------
(* Words and JavaScript values *)

Half == 65536

Undefined == <<-1, -1>>

NoIndex == -1

Word(n) == <<n \div Half, n % Half>>

IsNum(w) == w # Undefined

\* a < b on unsigned 32-bit words
WordLess(a, b) == (a[1] < b[1]) \/ (a[1] = b[1] /\ a[2] < b[2])

\* a <= b, false when a is undefined
WordLessEq(a, b) == a # Undefined /\ (a = b \/ WordLess(a, b))

\* the typed-array read module[k]: undefined outside 0 .. length-1
ModuleAt(m, k) == IF k >= 0 /\ k < Len(m) THEN m[k + 1] ELSE Undefined

\* TypedArray.prototype.slice(from, to): negative indices count from the end
SliceIndex(k, n) == IF k < 0 THEN (IF n + k < 0 THEN 0 ELSE n + k) ELSE (IF k > n THEN n ELSE k)

Slice(m, from, to) ==
    LET a == SliceIndex(from, Len(m))
        b == SliceIndex(to, Len(m))
    IN  IF a < b THEN SubSeq(m, a + 1, b) ELSE <<>>

\* Map.prototype.get: undefined (NoIndex) for a missing key
MapGetIndex(map, key) == IF key \in DOMAIN map THEN map[key] ELSE NoIndex

\* Map.prototype.set
MapSet(map, key, val) == [k \in (DOMAIN map) \cup {key} |-> IF k = key THEN val ELSE map[k]]

EmptyMap == [k \in {} |-> 0]

RECURSIVE BitAnd(_, _)
BitAnd(a, b) ==
    IF a = 0 \/ b = 0 THEN 0
    ELSE (a % 2) * (b % 2) + 2 * BitAnd(a \div 2, b \div 2)

\* value & operand on 32-bit words
WordAnd(a, b) == <<BitAnd(a[1], b[1]), BitAnd(a[2], b[2])>>

-----------------------------------------------------------------------------
(* spirv.Meta, read from spirv.json (spirv.js:138) *)

MagicNumber == <<1795, 515>>       \* 0x07230203

Version == <<1, 1536>>             \* 0x00010600

WordCountShift == 16

OpCodeMask == 65535

\* instruction >> spirv.Meta.WordCountShift: ToInt32 and an arithmetic shift,
\* so a word with its top bit set yields a negative length; undefined >> 16 is 0
InstructionLength(w) ==
    IF w = Undefined THEN 0
    ELSE IF w[1] >= Half \div 2 THEN w[1] - Half ELSE w[1]

\* instruction & spirv.Meta.OpCodeMask; undefined & mask is 0
InstructionOpcode(w) == IF w = Undefined THEN 0 ELSE w[2] % (OpCodeMask + 1)

-----------------------------------------------------------------------------
(* The grammar catalogue.  The JSON grammar files are loaded once by        *)
(* loadSpirvJson / loadCoreGrammar / loadExtInstImport; the tables below    *)
(* are an excerpt of the SPIR-V unified1 grammar in the shape those loaders *)
(* store it.  A descriptor without a name has name "", one without a        *)
(* quantifier has quantifier "", an enumerant without parameters has        *)
(* parameters <<>>.  A BitEnum value is the hex digit string of the JSON    *)
(* file ("0x0002" is <<0, 0, 0, 2>>), a ValueEnum value is a number.        *)

\* spirv.Enums.Op, the opcode numbers the decoder names
Op == [OpNop |-> 0, OpSource |-> 3, OpSourceContinued |-> 2, OpName |-> 5,
       OpExtInstImport |-> 11, OpExtInst |-> 12, OpCapability |-> 17,
       OpTypeVoid |-> 19, OpTypeInt |-> 21, OpTypeFloat |-> 22,
       OpConstantTrue |-> 41, OpConstantFalse |-> 42, OpConstant |-> 43,
       OpConstantNull |-> 46, OpSpecConstantTrue |-> 48, OpSpecConstantFalse |-> 49,
       OpSpecConstant |-> 50, OpSpecConstantOp |-> 52,
       OpFunction |-> 54, OpFunctionEnd |-> 56, OpVariable |-> 59, OpLoad |-> 61,
       OpDecorate |-> 71, OpDecorationGroup |-> 73, OpGroupMemberDecorate |-> 75,
       OpIAdd |-> 128, OpPhi |-> 245, OpLoopMerge |-> 246, OpSelectionMerge |-> 247,
       OpLabel |-> 248, OpBranch |-> 249, OpBranchConditional |-> 250,
       OpSwitch |-> 251, OpKill |-> 252, OpReturn |-> 253, OpReturnValue |-> 254,
       OpUnreachable |-> 255, OpNoLine |-> 317, OpModuleProcessed |-> 330]

Desc(kind, name, quantifier) == [kind |-> kind, name |-> name, quantifier |-> quantifier]

Instr(opname, class, hasOperands, operands) ==
    [opname |-> opname, class |-> class, hasOperands |-> hasOperands, operands |-> operands]

\* spirv.Instructions: opcode -> grammar record
Instructions ==
    (Op.OpNop :> Instr("OpNop", "Miscellaneous", FALSE, <<>>)) @@
    (Op.OpName :> Instr("OpName", "Debug", TRUE,
        <<Desc("IdRef", "Target", ""), Desc("LiteralString", "Name", "")>>)) @@
    (Op.OpExtInstImport :> Instr("OpExtInstImport", "Extension", TRUE,
        <<Desc("IdResult", "", ""), Desc("LiteralString", "Name", "")>>)) @@
    (Op.OpExtInst :> Instr("OpExtInst", "Extension", TRUE,
        <<Desc("IdResultType", "", ""), Desc("IdResult", "", ""), Desc("IdRef", "Set", ""),
          Desc("LiteralExtInstInteger", "Instruction", ""),
          Desc("IdRef", "Operand 1, Operand 2, ...", "*")>>)) @@
    (Op.OpTypeVoid :> Instr("OpTypeVoid", "Type-Declaration", TRUE,
        <<Desc("IdResult", "", "")>>)) @@
    (Op.OpTypeInt :> Instr("OpTypeInt", "Type-Declaration", TRUE,
        <<Desc("IdResult", "", ""), Desc("LiteralInteger", "Width", ""),
          Desc("LiteralInteger", "Signedness", "")>>)) @@
    (Op.OpTypeFloat :> Instr("OpTypeFloat", "Type-Declaration", TRUE,
        <<Desc("IdResult", "", ""), Desc("LiteralInteger", "Width", "")>>)) @@
    (Op.OpConstantTrue :> Instr("OpConstantTrue", "Constant-Creation", TRUE,
        <<Desc("IdResultType", "", ""), Desc("IdResult", "", "")>>)) @@
    (Op.OpConstant :> Instr("OpConstant", "Constant-Creation", TRUE,
        <<Desc("IdResultType", "", ""), Desc("IdResult", "", ""),
          Desc("LiteralContextDependentNumber", "Value", "")>>)) @@
    (Op.OpSpecConstant :> Instr("OpSpecConstant", "Constant-Creation", TRUE,
        <<Desc("IdResultType", "", ""), Desc("IdResult", "", ""),
          Desc("LiteralContextDependentNumber", "Value", "")>>)) @@
    (Op.OpSpecConstantOp :> Instr("OpSpecConstantOp", "Constant-Creation", TRUE,
        <<Desc("IdResultType", "", ""), Desc("IdResult", "", ""),
          Desc("LiteralSpecConstantOpInteger", "Opcode", "")>>)) @@
    (Op.OpFunction :> Instr("OpFunction", "Function", TRUE,
        <<Desc("IdResultType", "", ""), Desc("IdResult", "", ""),
          Desc("FunctionControl", "", ""), Desc("IdRef", "Function Type", "")>>)) @@
    (Op.OpFunctionEnd :> Instr("OpFunctionEnd", "Function", FALSE, <<>>)) @@
    (Op.OpVariable :> Instr("OpVariable", "Memory", TRUE,
        <<Desc("IdResultType", "", ""), Desc("IdResult", "", ""),
          Desc("StorageClass", "", ""), Desc("IdRef", "Initializer", "?")>>)) @@
    (Op.OpLoad :> Instr("OpLoad", "Memory", TRUE,
        <<Desc("IdResultType", "", ""), Desc("IdResult", "", ""),
          Desc("IdRef", "Pointer", ""), Desc("MemoryAccess", "", "?")>>)) @@
    (Op.OpDecorate :> Instr("OpDecorate", "Annotation", TRUE,
        <<Desc("IdRef", "Target", ""), Desc("Decoration", "", "")>>)) @@
    (Op.OpDecorationGroup :> Instr("OpDecorationGroup", "Annotation", TRUE,
        <<Desc("IdResult", "", "")>>)) @@
    (Op.OpGroupMemberDecorate :> Instr("OpGroupMemberDecorate", "Annotation", TRUE,
        <<Desc("IdRef", "Decoration Group", ""),
          Desc("PairIdRefLiteralInteger", "Targets", "*")>>)) @@
    (Op.OpIAdd :> Instr("OpIAdd", "Arithmetic", TRUE,
        <<Desc("IdResultType", "", ""), Desc("IdResult", "", ""),
          Desc("IdRef", "Operand 1", ""), Desc("IdRef", "Operand 2", "")>>)) @@
    (Op.OpPhi :> Instr("OpPhi", "Control-Flow", TRUE,
        <<Desc("IdResultType", "", ""), Desc("IdResult", "", ""),
          Desc("PairIdRefIdRef", "Variable, Parent, ...", "*")>>)) @@
    (Op.OpLoopMerge :> Instr("OpLoopMerge", "Control-Flow", TRUE,
        <<Desc("IdRef", "Merge Block", ""), Desc("IdRef", "Continue Target", ""),
          Desc("LoopControl", "", "")>>)) @@
    (Op.OpSelectionMerge :> Instr("OpSelectionMerge", "Control-Flow", TRUE,
        <<Desc("IdRef", "Merge Block", ""), Desc("SelectionControl", "", "")>>)) @@
    (Op.OpLabel :> Instr("OpLabel", "Control-Flow", TRUE, <<Desc("IdResult", "", "")>>)) @@
    (Op.OpBranch :> Instr("OpBranch", "Control-Flow", TRUE,
        <<Desc("IdRef", "Target Label", "")>>)) @@
    (Op.OpBranchConditional :> Instr("OpBranchConditional", "Control-Flow", TRUE,
        <<Desc("IdRef", "Condition", ""), Desc("IdRef", "True Label", ""),
          Desc("IdRef", "False Label", ""), Desc("LiteralInteger", "Branch weights", "*")>>)) @@
    (Op.OpSwitch :> Instr("OpSwitch", "Control-Flow", TRUE,
        <<Desc("IdRef", "Selector", ""), Desc("IdRef", "Default", ""),
          Desc("PairLiteralIntegerIdRef", "Target", "*")>>)) @@
    (Op.OpReturn :> Instr("OpReturn", "Control-Flow", FALSE, <<>>)) @@
    (Op.OpNoLine :> Instr("OpNoLine", "Debug", FALSE, <<>>)) @@
    (Op.OpModuleProcessed :> Instr("OpModuleProcessed", "Debug", TRUE,
        <<Desc("LiteralString", "Process", "")>>))

\* spirv.OpcodesWithResultType: operands[0].kind == "IdResultType"
OpcodesWithResultType ==
    {o \in DOMAIN Instructions :
        /\ Instructions[o].hasOperands
        /\ Instructions[o].operands[1].kind = "IdResultType"}

\* spirv.OpcodesWithResult: "IdResult" among the first two operands
OpcodesWithResult ==
    {o \in DOMAIN Instructions :
        /\ Instructions[o].hasOperands
        /\ \E j \in 1..(IF Len(Instructions[o].operands) < 2
                        THEN Len(Instructions[o].operands) ELSE 2) :
               Instructions[o].operands[j].kind = "IdResult"}

Enumerant(enumerant, value, parameters) ==
    [enumerant |-> enumerant, value |-> value, parameters |-> parameters]

\* spirv.Operands: operand kind -> record of the 'operand_kinds' section
Operands ==
    ("StorageClass" :> [category |-> "ValueEnum", enumerants |->
        <<Enumerant("UniformConstant", 0, <<>>), Enumerant("Input", 1, <<>>),
          Enumerant("Uniform", 2, <<>>), Enumerant("Output", 3, <<>>),
          Enumerant("Function", 7, <<>>)>>]) @@
    ("Decoration" :> [category |-> "ValueEnum", enumerants |->
        <<Enumerant("RelaxedPrecision", 0, <<>>),
          Enumerant("SpecId", 1, <<Desc("LiteralInteger", "Specialization Constant ID", "")>>),
          Enumerant("Block", 2, <<>>),
          Enumerant("BuiltIn", 11, <<Desc("BuiltIn", "", "")>>),
          Enumerant("Location", 30, <<Desc("LiteralInteger", "Location", "")>>),
          \* not an enumerant of the published grammar: a record the grammar
          \* format admits, whose first parameter is an enumerant that has
          \* parameters of its own
          Enumerant("Access", 6000, <<Desc("MemoryAccess", "", ""),
                                      Desc("LiteralInteger", "Size", "")>>)>>]) @@
    ("BuiltIn" :> [category |-> "ValueEnum", enumerants |->
        <<Enumerant("Position", 0, <<>>), Enumerant("PointSize", 1, <<>>)>>]) @@
    ("FunctionControl" :> [category |-> "BitEnum", enumerants |->
        <<Enumerant("None", <<0, 0, 0, 0>>, <<>>), Enumerant("Inline", <<0, 0, 0, 1>>, <<>>),
          Enumerant("DontInline", <<0, 0, 0, 2>>, <<>>), Enumerant("Pure", <<0, 0, 0, 4>>, <<>>),
          Enumerant("Const", <<0, 0, 0, 8>>, <<>>)>>]) @@
    ("MemoryAccess" :> [category |-> "BitEnum", enumerants |->
        <<Enumerant("None", <<0, 0, 0, 0>>, <<>>), Enumerant("Volatile", <<0, 0, 0, 1>>, <<>>),
          Enumerant("Aligned", <<0, 0, 0, 2>>, <<Desc("LiteralInteger", "", "")>>),
          Enumerant("Nontemporal", <<0, 0, 0, 4>>, <<>>),
          Enumerant("MakePointerAvailable", <<0, 0, 0, 8>>, <<Desc("IdScope", "", "")>>)>>]) @@
    ("SelectionControl" :> [category |-> "BitEnum", enumerants |->
        <<Enumerant("None", <<0, 0, 0, 0>>, <<>>), Enumerant("Flatten", <<0, 0, 0, 1>>, <<>>),
          Enumerant("DontFlatten", <<0, 0, 0, 2>>, <<>>)>>]) @@
    ("LoopControl" :> [category |-> "BitEnum", enumerants |->
        <<Enumerant("None", <<0, 0, 0, 0>>, <<>>), Enumerant("Unroll", <<0, 0, 0, 1>>, <<>>),
          Enumerant("DontUnroll", <<0, 0, 0, 2>>, <<>>),
          Enumerant("DependencyLength", <<0, 0, 0, 8>>, <<Desc("LiteralInteger", "", "")>>)>>]) @@
    ("LiteralFloat" :> [category |-> "Literal", enumerants |-> <<>>])

\* const ExtInstType... (spirv.js:97-103)
ExtInstType == [GlslStd450 |-> 0, OpenCLStd |-> 1, NonSemanitcDebugPrintf |-> 2,
                NonSemanitcClspvReflection |-> 3, NonSemanitcDebugInfo |-> 4,
                DebugInfo |-> 5, OpenCLDebug100 |-> 6]

\* spirv.ExtInstructions: set -> (opcode -> opname), one map per grammar file
ExtInstructions ==
    (ExtInstType.GlslStd450 :> (1 :> "Round" @@ 2 :> "RoundEven")) @@
    (ExtInstType.OpenCLStd :> (0 :> "acos" @@ 1 :> "acosh")) @@
    (ExtInstType.NonSemanitcDebugPrintf :> (1 :> "DebugPrintf")) @@
    (ExtInstType.NonSemanitcClspvReflection :> (1 :> "Kernel")) @@
    (ExtInstType.NonSemanitcDebugInfo :> (0 :> "DebugInfoNone" @@ 1 :> "DebugCompilationUnit")) @@
    (ExtInstType.DebugInfo :> (0 :> "DebugInfoNone" @@ 1 :> "DebugCompilationUnit")) @@
    (ExtInstType.OpenCLDebug100 :> (0 :> "DebugInfoNone" @@ 1 :> "DebugCompilationUnit"))

\* the 'operands' of the records of spirv.ExtInstructions: set -> opcode ->
\* operand descriptors, <<>> for a record without operands
ExtInstructionOperands ==
    (ExtInstType.GlslStd450 :> (1 :> <<Desc("IdRef", "'x'", "")>> @@ 2 :> <<Desc("IdRef", "'x'", "")>>)) @@
    (ExtInstType.OpenCLStd :> (0 :> <<Desc("IdRef", "'x'", "")>> @@ 1 :> <<Desc("IdRef", "'x'", "")>>)) @@
    (ExtInstType.NonSemanitcDebugPrintf :>
        (1 :> <<Desc("IdRef", "'Format'", ""), Desc("IdRef", "", "*")>>)) @@
    (ExtInstType.NonSemanitcClspvReflection :>
        (1 :> <<Desc("IdRef", "Kernel", ""), Desc("IdRef", "Name", "")>>)) @@
    (ExtInstType.NonSemanitcDebugInfo :>
        (0 :> <<>> @@ 1 :> <<Desc("IdRef", "'Version'", ""), Desc("IdRef", "'DWARF Version'", ""),
                            Desc("IdRef", "'Source'", ""), Desc("IdRef", "'Language'", "")>>)) @@
    (ExtInstType.DebugInfo :>
        (0 :> <<>> @@ 1 :> <<Desc("LiteralInteger", "'Version'", ""),
                            Desc("LiteralInteger", "'DWARF Version'", "")>>)) @@
    (ExtInstType.OpenCLDebug100 :>
        (0 :> <<>> @@ 1 :> <<Desc("LiteralInteger", "'Version'", ""),
                            Desc("LiteralInteger", "'DWARF Version'", ""),
                            Desc("IdRef", "'Source'", ""), Desc("SourceLanguage", "'Language'", "")>>))

-----------------------------------------------------------------------------
(* Strings are sequences of character codes. *)

\* "GLSL.std.450"
NameGlslStd450 == <<71, 76, 83, 76, 46, 115, 116, 100, 46, 52, 53, 48>>

\* "OpenCL.std"
NameOpenCLStd == <<79, 112, 101, 110, 67, 76, 46, 115, 116, 100>>

\* "NonSemantic.DebugPrintf"
NameNonSemanticDebugPrintf == <<78, 111, 110, 83, 101, 109, 97, 110, 116, 105, 99, 46, 68, 101, 98, 117, 103, 80, 114, 105, 110, 116, 102>>

\* "NonSemantic.ClspvReflection"
NameNonSemanticClspvReflection == <<78, 111, 110, 83, 101, 109, 97, 110, 116, 105, 99, 46, 67, 108, 115, 112, 118, 82, 101, 102, 108, 101, 99, 116, 105, 111, 110>>

\* "NonSemantic.Shader.DebugInfo"
NameNonSemanticShaderDebugInfo == <<78, 111, 110, 83, 101, 109, 97, 110, 116, 105, 99, 46, 83, 104, 97, 100, 101, 114, 46, 68, 101, 98, 117, 103, 73, 110, 102, 111>>

\* "DebugInfo"
NameDebugInfo == <<68, 101, 98, 117, 103, 73, 110, 102, 111>>

\* "OpenCL.DebugInfo.100"
NameOpenCLDebugInfo100 == <<79, 112, 101, 110, 67, 76, 46, 68, 101, 98, 117, 103, 73, 110, 102, 111, 46, 49, 48, 48>>

\* String.prototype.includes
Includes(str, sub) ==
    \E k \in 0..(Len(str) - Len(sub)) : SubSeq(str, k + 1, k + Len(sub)) = sub

\* the four bytes of a word in the order getLiteralString appends them:
\* char3 (low byte) first, char0 (high byte) last
WordBytes(w) == <<w[2] % 256, w[2] \div 256, w[1] % 256, w[1] \div 256>>

\* four bytes packed in a word, low byte first
Pack(b0, b1, b2, b3) == <<b3 * 256 + b2, b1 * 256 + b0>>

\* the bytes one word contributes: every non-zero byte, in that order
WordChars(w) == SelectSeq(WordBytes(w), LAMBDA c : c # 0)

\* spirv.getLiteralString: stops after the first word holding a zero byte
RECURSIVE getLiteralString(_)
getLiteralString(words) ==
    IF words = <<>> THEN <<>>
    ELSE IF \E k \in 1..4 : WordBytes(words[1])[k] = 0
         THEN WordChars(words[1])
         ELSE WordChars(words[1]) \o getLiteralString(Tail(words))

-----------------------------------------------------------------------------
(* Text.  A JavaScript string is the sequence of its character codes, so    *)
(* that splitting, trimming, parsing and formatting work on characters.     *)

\* the characters of the names of the grammar catalogue and of the string
\* constants of the decoder
Spelling ==
    ("OpNop" :> <<79, 112, 78, 111, 112>>) @@
    ("OpSource" :> <<79, 112, 83, 111, 117, 114, 99, 101>>) @@
    ("OpSourceContinued" :> <<79, 112, 83, 111, 117, 114, 99, 101, 67, 111, 110, 116, 105, 110, 117, 101, 100>>) @@
    ("OpName" :> <<79, 112, 78, 97, 109, 101>>) @@
    ("OpExtInstImport" :> <<79, 112, 69, 120, 116, 73, 110, 115, 116, 73, 109, 112, 111, 114, 116>>) @@
    ("OpExtInst" :> <<79, 112, 69, 120, 116, 73, 110, 115, 116>>) @@
    ("OpCapability" :> <<79, 112, 67, 97, 112, 97, 98, 105, 108, 105, 116, 121>>) @@
    ("OpTypeVoid" :> <<79, 112, 84, 121, 112, 101, 86, 111, 105, 100>>) @@
    ("OpTypeInt" :> <<79, 112, 84, 121, 112, 101, 73, 110, 116>>) @@
    ("OpTypeFloat" :> <<79, 112, 84, 121, 112, 101, 70, 108, 111, 97, 116>>) @@
    ("OpConstantTrue" :> <<79, 112, 67, 111, 110, 115, 116, 97, 110, 116, 84, 114, 117, 101>>) @@
    ("OpConstantFalse" :> <<79, 112, 67, 111, 110, 115, 116, 97, 110, 116, 70, 97, 108, 115, 101>>) @@
    ("OpConstant" :> <<79, 112, 67, 111, 110, 115, 116, 97, 110, 116>>) @@
    ("OpConstantNull" :> <<79, 112, 67, 111, 110, 115, 116, 97, 110, 116, 78, 117, 108, 108>>) @@
    ("OpSpecConstantTrue" :> <<79, 112, 83, 112, 101, 99, 67, 111, 110, 115, 116, 97, 110, 116, 84, 114, 117, 101>>) @@
    ("OpSpecConstantFalse" :> <<79, 112, 83, 112, 101, 99, 67, 111, 110, 115, 116, 97, 110, 116, 70, 97, 108, 115, 101>>) @@
    ("OpSpecConstant" :> <<79, 112, 83, 112, 101, 99, 67, 111, 110, 115, 116, 97, 110, 116>>) @@
    ("OpSpecConstantOp" :> <<79, 112, 83, 112, 101, 99, 67, 111, 110, 115, 116, 97, 110, 116, 79, 112>>) @@
    ("OpFunction" :> <<79, 112, 70, 117, 110, 99, 116, 105, 111, 110>>) @@
    ("OpFunctionEnd" :> <<79, 112, 70, 117, 110, 99, 116, 105, 111, 110, 69, 110, 100>>) @@
    ("OpVariable" :> <<79, 112, 86, 97, 114, 105, 97, 98, 108, 101>>) @@
    ("OpLoad" :> <<79, 112, 76, 111, 97, 100>>) @@
    ("OpDecorate" :> <<79, 112, 68, 101, 99, 111, 114, 97, 116, 101>>) @@
    ("OpDecorationGroup" :> <<79, 112, 68, 101, 99, 111, 114, 97, 116, 105, 111, 110, 71, 114, 111, 117, 112>>) @@
    ("OpGroupMemberDecorate" :> <<79, 112, 71, 114, 111, 117, 112, 77, 101, 109, 98, 101, 114, 68, 101, 99, 111, 114, 97, 116, 101>>) @@
    ("OpIAdd" :> <<79, 112, 73, 65, 100, 100>>) @@
    ("OpPhi" :> <<79, 112, 80, 104, 105>>) @@
    ("OpLoopMerge" :> <<79, 112, 76, 111, 111, 112, 77, 101, 114, 103, 101>>) @@
    ("OpSelectionMerge" :> <<79, 112, 83, 101, 108, 101, 99, 116, 105, 111, 110, 77, 101, 114, 103, 101>>) @@
    ("OpLabel" :> <<79, 112, 76, 97, 98, 101, 108>>) @@
    ("OpBranch" :> <<79, 112, 66, 114, 97, 110, 99, 104>>) @@
    ("OpBranchConditional" :> <<79, 112, 66, 114, 97, 110, 99, 104, 67, 111, 110, 100, 105, 116, 105, 111, 110, 97, 108>>) @@
    ("OpSwitch" :> <<79, 112, 83, 119, 105, 116, 99, 104>>) @@
    ("OpKill" :> <<79, 112, 75, 105, 108, 108>>) @@
    ("OpReturn" :> <<79, 112, 82, 101, 116, 117, 114, 110>>) @@
    ("OpReturnValue" :> <<79, 112, 82, 101, 116, 117, 114, 110, 86, 97, 108, 117, 101>>) @@
    ("OpUnreachable" :> <<79, 112, 85, 110, 114, 101, 97, 99, 104, 97, 98, 108, 101>>) @@
    ("OpNoLine" :> <<79, 112, 78, 111, 76, 105, 110, 101>>) @@
    ("OpModuleProcessed" :> <<79, 112, 77, 111, 100, 117, 108, 101, 80, 114, 111, 99, 101, 115, 115, 101, 100>>) @@
    ("UniformConstant" :> <<85, 110, 105, 102, 111, 114, 109, 67, 111, 110, 115, 116, 97, 110, 116>>) @@
    ("Input" :> <<73, 110, 112, 117, 116>>) @@
    ("Uniform" :> <<85, 110, 105, 102, 111, 114, 109>>) @@
    ("Output" :> <<79, 117, 116, 112, 117, 116>>) @@
    ("Function" :> <<70, 117, 110, 99, 116, 105, 111, 110>>) @@
    ("RelaxedPrecision" :> <<82, 101, 108, 97, 120, 101, 100, 80, 114, 101, 99, 105, 115, 105, 111, 110>>) @@
    ("SpecId" :> <<83, 112, 101, 99, 73, 100>>) @@
    ("Block" :> <<66, 108, 111, 99, 107>>) @@
    ("BuiltIn" :> <<66, 117, 105, 108, 116, 73, 110>>) @@
    ("Location" :> <<76, 111, 99, 97, 116, 105, 111, 110>>) @@
    ("Access" :> <<65, 99, 99, 101, 115, 115>>) @@
    ("Position" :> <<80, 111, 115, 105, 116, 105, 111, 110>>) @@
    ("PointSize" :> <<80, 111, 105, 110, 116, 83, 105, 122, 101>>) @@
    ("None" :> <<78, 111, 110, 101>>) @@
    ("Inline" :> <<73, 110, 108, 105, 110, 101>>) @@
    ("DontInline" :> <<68, 111, 110, 116, 73, 110, 108, 105, 110, 101>>) @@
    ("Pure" :> <<80, 117, 114, 101>>) @@
    ("Const" :> <<67, 111, 110, 115, 116>>) @@
    ("Volatile" :> <<86, 111, 108, 97, 116, 105, 108, 101>>) @@
    ("Aligned" :> <<65, 108, 105, 103, 110, 101, 100>>) @@
    ("Nontemporal" :> <<78, 111, 110, 116, 101, 109, 112, 111, 114, 97, 108>>) @@
    ("MakePointerAvailable" :> <<77, 97, 107, 101, 80, 111, 105, 110, 116, 101, 114, 65, 118, 97, 105, 108, 97, 98, 108, 101>>) @@
    ("Flatten" :> <<70, 108, 97, 116, 116, 101, 110>>) @@
    ("DontFlatten" :> <<68, 111, 110, 116, 70, 108, 97, 116, 116, 101, 110>>) @@
    ("Unroll" :> <<85, 110, 114, 111, 108, 108>>) @@
    ("DontUnroll" :> <<68, 111, 110, 116, 85, 110, 114, 111, 108, 108>>) @@
    ("DependencyLength" :> <<68, 101, 112, 101, 110, 100, 101, 110, 99, 121, 76, 101, 110, 103, 116, 104>>) @@
    ("Round" :> <<82, 111, 117, 110, 100>>) @@
    ("RoundEven" :> <<82, 111, 117, 110, 100, 69, 118, 101, 110>>) @@
    ("acos" :> <<97, 99, 111, 115>>) @@
    ("acosh" :> <<97, 99, 111, 115, 104>>) @@
    ("DebugPrintf" :> <<68, 101, 98, 117, 103, 80, 114, 105, 110, 116, 102>>) @@
    ("Kernel" :> <<75, 101, 114, 110, 101, 108>>) @@
    ("DebugInfoNone" :> <<68, 101, 98, 117, 103, 73, 110, 102, 111, 78, 111, 110, 101>>) @@
    ("DebugCompilationUnit" :> <<68, 101, 98, 117, 103, 67, 111, 109, 112, 105, 108, 97, 116, 105, 111, 110, 85, 110, 105, 116>>) @@
    (" | " :> <<32, 124, 32>>) @@
    (" = " :> <<32, 61, 32>>)

\* the em space the entity &emsp; stands for
EmSpace == 8195

\* /\s/ for the characters the texts hold
IsWhitespace(c) == c \in {9, 10, 11, 12, 13, 32, 160, EmSpace}

\* String.prototype.indexOf and lastIndexOf for one character: -1 if absent
IndexOf(str, c) ==
    IF \A k \in 1..Len(str) : str[k] # c THEN -1
    ELSE (CHOOSE k \in 1..Len(str) : str[k] = c /\ \A j \in 1..(k - 1) : str[j] # c) - 1

LastIndexOf(str, c) ==
    IF \A k \in 1..Len(str) : str[k] # c THEN -1
    ELSE (CHOOSE k \in 1..Len(str) : str[k] = c /\ \A j \in (k + 1)..Len(str) : str[j] # c) - 1

\* String.prototype.substring: both arguments are clamped to 0 .. length and
\* swapped when the first is the larger
Substring(str, start, end) ==
    LET a == SliceIndex(IF start < 0 THEN 0 ELSE start, Len(str))
        b == SliceIndex(IF end < 0 THEN 0 ELSE end, Len(str))
    IN  IF a <= b THEN SubSeq(str, a + 1, b) ELSE SubSeq(str, b + 1, a)

\* String.prototype.trim
Trim(str) ==
    LET ink == {k \in 1..Len(str) : ~IsWhitespace(str[k])}
    IN  IF ink = {} THEN <<>>
        ELSE SubSeq(str, CHOOSE k \in ink : \A j \in ink : k <= j,
                         CHOOSE k \in ink : \A j \in ink : k >= j)

\* the length of the run of whitespace a string starts with
RECURSIVE WhitespaceRun(_)
WhitespaceRun(str) ==
    IF str = <<>> \/ ~IsWhitespace(str[1]) THEN 0 ELSE 1 + WhitespaceRun(Tail(str))

\* replace(/\s{2,}/g, ' '): a run of two or more whitespace characters becomes
\* one space; a single whitespace character stays what it is
RECURSIVE CollapseWhitespace(_)
CollapseWhitespace(str) ==
    IF str = <<>> THEN <<>>
    ELSE IF WhitespaceRun(str) >= 2
         THEN <<32>> \o CollapseWhitespace(SubSeq(str, WhitespaceRun(str) + 1, Len(str)))
         ELSE <<str[1]>> \o CollapseWhitespace(Tail(str))

\* String.prototype.split for a separator of one character
RECURSIVE Split(_, _)
Split(str, sep) ==
    IF IndexOf(str, sep) = -1 THEN <<str>>
    ELSE <<SubSeq(str, 1, IndexOf(str, sep))>>
         \o Split(SubSeq(str, IndexOf(str, sep) + 2, Len(str)), sep)

\* Array.prototype.join
RECURSIVE Join(_, _)
Join(parts, sep) ==
    IF parts = <<>> THEN <<>>
    ELSE IF Len(parts) = 1 THEN parts[1]
    ELSE parts[1] \o sep \o Join(Tail(parts), sep)

(* Numbers are kept in 16-bit limbs, most significant first: four limbs    *)
(* for a 64-bit two's complement value.                                     *)

\* limbs * m + a, modulo the width of limbs
RECURSIVE MulAdd(_, _, _)
MulAdd(limbs, m, a) ==
    IF limbs = <<>> THEN <<>>
    ELSE LET n == Len(limbs)
             t == limbs[n] * m + a
         IN  Append(MulAdd(SubSeq(limbs, 1, n - 1), m, t \div Half), t % Half)

\* the quotient of limbs by d, given the remainder r carried into them
RECURSIVE DivLimbs(_, _, _)
DivLimbs(limbs, d, r) ==
    IF limbs = <<>> THEN <<>>
    ELSE <<(r * Half + limbs[1]) \div d>> \o DivLimbs(Tail(limbs), d, (r * Half + limbs[1]) % d)

RECURSIVE ModLimbs(_, _, _)
ModLimbs(limbs, d, r) ==
    IF limbs = <<>> THEN r ELSE ModLimbs(Tail(limbs), d, (r * Half + limbs[1]) % d)

IsZeroLimbs(limbs) == \A k \in 1..Len(limbs) : limbs[k] = 0

\* two's complement negation
NegateLimbs(limbs) == MulAdd([k \in 1..Len(limbs) |-> Half - 1 - limbs[k]], 1, 1)

\* 2^n
RECURSIVE Pow2(_)
Pow2(n) == IF n = 0 THEN 1 ELSE 2 * Pow2(n - 1)

\* the decimal digits of an unsigned value, '0' for zero
RECURSIVE DecimalDigits(_)
DecimalDigits(limbs) ==
    IF IsZeroLimbs(DivLimbs(limbs, 10, 0)) THEN <<48 + ModLimbs(limbs, 10, 0)>>
    ELSE Append(DecimalDigits(DivLimbs(limbs, 10, 0)), 48 + ModLimbs(limbs, 10, 0))

\* 'undefined'
UndefinedText == <<117, 110, 100, 101, 102, 105, 110, 101, 100>>

\* '' + word for a Uint32Array element, 'undefined' outside the array
WordToString(w) == IF w = Undefined THEN UndefinedText ELSE DecimalDigits(w)

\* the value of a digit character in a radix, -1 if it is none
DigitValue(c, radix) ==
    LET v == IF c \in 48..57 THEN c - 48
             ELSE IF c \in 97..102 THEN c - 87
             ELSE IF c \in 65..70 THEN c - 55 ELSE 99
    IN  IF v < radix THEN v ELSE -1

\* the digits a string starts with, read in a radix into four limbs
RECURSIVE ReadDigits(_, _, _)
ReadDigits(str, radix, acc) ==
    IF str = <<>> \/ DigitValue(str[1], radix) = -1 THEN acc
    ELSE ReadDigits(Tail(str), radix, MulAdd(acc, radix, DigitValue(str[1], radix)))

RECURSIVE DigitRun(_, _)
DigitRun(str, radix) ==
    IF str = <<>> \/ DigitValue(str[1], radix) = -1 THEN 0 ELSE 1 + DigitRun(Tail(str), radix)

\* a JavaScript number that is an integer, or NaN.  The magnitude is kept
\* modulo 2^64: the numerals of the texts have fewer than 20 digits.
NaN == [nan |-> TRUE, neg |-> FALSE, mag |-> <<0, 0, 0, 0>>, frac |-> FALSE]

Integer(neg, mag) == [nan |-> FALSE, neg |-> neg, mag |-> mag, frac |-> FALSE]

\* the sign a numeral starts with and the rest of it
SignOf(str) == str # <<>> /\ str[1] = 45

Unsigned(str) == IF str # <<>> /\ str[1] \in {43, 45} THEN Tail(str) ELSE str

HasHexPrefix(str) == Len(str) >= 2 /\ str[1] = 48 /\ str[2] \in {88, 120}

\* parseInt(string): leading whitespace, a sign, 0x for radix 16, then digits
\* up to the first character that is none; NaN without a digit.
\* parseInt(undefined) is NaN: undefined is the string Undefined here.
ParseInt(string) ==
    IF string = Undefined THEN NaN
    ELSE LET str == SubSeq(string, WhitespaceRun(string) + 1, Len(string))
             body == Unsigned(str)
         IN  IF HasHexPrefix(body)
             THEN IF DigitRun(SubSeq(body, 3, Len(body)), 16) = 0 THEN NaN
                  ELSE Integer(SignOf(str), ReadDigits(SubSeq(body, 3, Len(body)), 16, <<0, 0, 0, 0>>))
             ELSE IF DigitRun(body, 10) = 0 THEN NaN
                  ELSE Integer(SignOf(str), ReadDigits(body, 10, <<0, 0, 0, 0>>))

\* a number compared with a small non-negative integer by ==
NumberIs(num, n) == ~num.nan /\ (~num.neg \/ n = 0) /\ ~num.frac /\ num.mag = <<0, 0, 0, n>>

\* the Uint32Array element a number becomes: NaN is 0, the rest modulo 2^32
NumberToUint32(num) ==
    IF num.nan THEN Word(0)
    ELSE IF num.neg THEN SubSeq(NegateLimbs(num.mag), 3, 4)
    ELSE SubSeq(num.mag, 3, 4)

-----------------------------------------------------------------------------

\* spirv.setResultToExtImportMap: the new spirv.ResultToExtImport
setResultToExtImportMap(map, extendedName, resultId) ==
    IF Includes(extendedName, NameGlslStd450)
        THEN MapSet(map, resultId, ExtInstType.GlslStd450)
    ELSE IF Includes(extendedName, NameOpenCLStd)
        THEN MapSet(map, resultId, ExtInstType.OpenCLStd)
    ELSE IF Includes(extendedName, NameNonSemanticDebugPrintf)
        THEN MapSet(map, resultId, ExtInstType.NonSemanitcDebugPrintf)
    ELSE IF Includes(extendedName, NameNonSemanticClspvReflection)
        THEN MapSet(map, resultId, ExtInstType.NonSemanitcClspvReflection)
    ELSE IF Includes(extendedName, NameNonSemanticShaderDebugInfo)
        THEN MapSet(map, resultId, ExtInstType.NonSemanitcDebugInfo)
    ELSE IF Includes(extendedName, NameDebugInfo)
        THEN MapSet(map, resultId, ExtInstType.DebugInfo)
    ELSE IF Includes(extendedName, NameOpenCLDebugInfo100)
        THEN MapSet(map, resultId, ExtInstType.OpenCLDebug100)
    ELSE map

\* spirv.getExtInstructions: the set's opcode map, or "none" for undefined
HasExtInstructions(map, setId) == setId \in DOMAIN map /\ map[setId] \in DOMAIN ExtInstructions

getExtInstructions(map, setId) == ExtInstructions[map[setId]]

\* parseInt(value, 16) of a BitEnum value, as a 32-bit word
RECURSIVE ParseHex(_, _)
ParseHex(digits, acc) ==
    IF digits = <<>> THEN acc
    ELSE ParseHex(Tail(digits),
                  <<(acc[1] * 16 + acc[2] \div 4096) % Half, (acc[2] * 16 + digits[1]) % Half>>)

-----------------------------------------------------------------------------
(* Literal values (main.js:418-474).  An integer literal is kept in two's   *)
(* complement: its value is sign * 2^64 + high * 2^32 + low with sign in    *)
(* {0, -1}.  A float literal is kept as the fields parseFloatString cuts    *)
(* out of the bit string.                                                   *)

TopBit(w) == w[1] >= Half \div 2

AllOnes == <<Half - 1, Half - 1>>

\* operandValue >> 0 ("JS way to bring uint32 to int32"); undefined >> 0 is 0
ToInt32(w) ==
    IF w = Undefined THEN [tag |-> "int", sign |-> 0, high |-> Word(0), low |-> Word(0)]
    ELSE IF TopBit(w) THEN [tag |-> "int", sign |-> -1, high |-> AllOnes, low |-> w]
    ELSE [tag |-> "int", sign |-> 0, high |-> Word(0), low |-> w]

\* a word taken as the unsigned number it is
Uint32(w) == [tag |-> "int", sign |-> 0, high |-> Word(0), low |-> w]

\* the 64-bit literal with the low word sign-extended as well
Int64_SignedLow(signedness, highWord, lowWord) ==
    IF signedness = Word(1) /\ highWord = Word(0) THEN ToInt32(lowWord)
    ELSE [tag |-> "int", sign |-> IF signedness = Word(1) /\ TopBit(highWord) THEN -1 ELSE 0,
          high |-> highWord, low |-> lowWord]

\* (BigInt(operandValueHigh) << BigInt(32)) + BigInt(operandValueLow)
Int64(signedness, highWord, lowWord) ==
    LET h == IF signedness = Word(1) THEN ToInt32(highWord) ELSE Uint32(highWord)
    IN  [tag |-> "int", sign |-> h.sign, high |-> h.low, low |-> lowWord]

\* parseFloatString (unnamed/part_000:51-87) on a 32 or 64 character bit string
\* given as its words: '0.0' for all zero bits, else sign, exponent and mantissa
parseFloatString(size, highWord, lowWord) ==
    IF size = 32
    THEN IF lowWord = Word(0) THEN [tag |-> "float", text |-> "0.0"]
         ELSE [tag |-> "float", text |-> "", sign |-> IF TopBit(lowWord) THEN -1 ELSE 1,
               exp |-> ((lowWord[1] % 32768) \div 128) - 127,
               mantissa |-> <<lowWord[1] % 128, lowWord[2]>>]
    ELSE IF highWord = Word(0) /\ lowWord = Word(0) THEN [tag |-> "float", text |-> "0.0"]
         ELSE [tag |-> "float", text |-> "", sign |-> IF TopBit(highWord) THEN -1 ELSE 1,
               exp |-> ((highWord[1] % 32768) \div 16) - 1023,
               mantissa |-> <<highWord[1] % 16, highWord[2], lowWord[1], lowWord[2]>>]

-----------------------------------------------------------------------------
(* instructionString (main.js:235-600) is kept as the text the markup       *)
(* shows: the tags are left out and &emsp; is the character it stands for.  *)

\* the text of createIdHtmlString (main.js:777-779): '%' + id
IdText(id) == <<37>> \o WordToString(id)

\* mapValueToEnumKey(spirv.Enums.Op, opcode) (unnamed/part_000:28-35)
OpKey(opcode) ==
    IF \E key \in DOMAIN Op : Op[key] = opcode
    THEN Spelling[CHOOSE key \in DOMAIN Op : Op[key] = opcode]
    ELSE <<86, 65, 76, 85, 69, 95, 78, 79, 84, 95, 70, 79, 85, 78, 68>>  \* 'VALUE_NOT_FOUND'

\* a string kept as pieces, put together
RECURSIVE Pieces(_)
Pieces(names) == IF names = <<>> THEN <<>> ELSE Spelling[names[1]] \o Pieces(Tail(names))

\* the integer an IEEE 754 value is when its exponent is in 0 .. bits and the
\* mantissa bits below the point are all zero, NoIndex otherwise; top holds
\* the leading bits mantissa bits and rest says that the others are zero
WholeNumber(exp, top, bits, rest) ==
    IF exp >= 0 /\ exp <= bits /\ rest /\ top % Pow2(bits - exp) = 0
    THEN (Pow2(bits) + top) \div Pow2(bits - exp)
    ELSE NoIndex

\* '' + result + '.0' of parseFloatString for a whole number below 2^24.
\* The digits JavaScript prints for any other number are not followed: the
\* text of such a constant is left empty.
FloatText(value) ==
    LET n == IF Len(value.mantissa) = 2
             THEN WholeNumber(value.exp, value.mantissa[1] * Half + value.mantissa[2], 23, TRUE)
             ELSE WholeNumber(value.exp, value.mantissa[1] * Half + value.mantissa[2], 20,
                              value.mantissa[3] = 0 /\ value.mantissa[4] = 0)
    IN  IF value.text # "" THEN <<48, 46, 48>>
        ELSE IF n = NoIndex THEN <<>>
        ELSE (IF value.sign = -1 THEN <<45>> ELSE <<>>) \o DecimalDigits(Word(n)) \o <<46, 48>>

\* '' + operandValue (main.js:472)
ValueText(value) ==
    IF value.tag = "undefined" THEN UndefinedText
    ELSE IF value.tag = "float" THEN FloatText(value)
    ELSE IF value.sign = -1 THEN <<45>> \o DecimalDigits(NegateLimbs(value.high \o value.low))
    ELSE DecimalDigits(value.high \o value.low)

\* instructionString += text
Say(os, text) == [os EXCEPT !.instructionString = @ \o text]

-----------------------------------------------------------------------------
(* The operand loop of one instruction (main.js:252-596).  ctx holds what   *)
(* the loop only reads, os what it changes.  os.err # "" once an assert or  *)
(* an exception has ended the decode; what was written before stays.        *)

Throw(os, msg) == [os EXCEPT !.err = msg]

\* idConsumers[id] exists for id in 0 .. maxIdBound-1 (main.js:63-65);
\* it is kept as the sequence whose element id+1 is idConsumers[id]
HasConsumers(idc, id) == id # Undefined /\ id[1] = 0 /\ id[2] < Len(idc)

\* the id listed as an operand without the instruction listed as its consumer
ConsumeId_NoConsumerPush(ctx, os, id) ==
    IF ~HasConsumers(os.idConsumers, id)
    THEN Throw(os, "TypeError: idConsumers[id] is undefined")
    ELSE [os EXCEPT !.operandIdList = Append(@, id)]

\* idConsumers[id].push(instructionCount); operandIdList.push(id)
\* (main.js:248-249, 354-355, 364-365, 478-479): push on undefined throws
ConsumeId(ctx, os, id) ==
    IF ~HasConsumers(os.idConsumers, id)
    THEN Throw(os, "TypeError: idConsumers[id] is undefined")
    ELSE [os EXCEPT !.idConsumers[id[2] + 1] = Append(@, ctx.instructionCount),
                    !.operandIdList = Append(@, id)]

\* main.js:325-331: the descriptor's name, or its kind when it has none
OperandName(info) == IF info.name # "" THEN info.name ELSE info.kind

PushName(os, name, index) ==
    [os EXCEPT !.operandNameList = Append(@, [name |-> name, index |-> index])]

\* Array.prototype.shift on parameterOperandQueue: <<>> stands for undefined
QueueHead(q) == IF q = <<>> THEN <<>> ELSE Head(q)

QueueRest(q) == IF q = <<>> THEN <<>> ELSE Tail(q)

\* main.js:296-324: which descriptor decodes the next operand.
\* extendedOperandInfo is declared at main.js:263 and never assigned, so the
\* branch of main.js:300-302 is never taken.
SelectOperandInfo(ctx, os) ==
    IF os.optionalArray THEN os
    ELSE IF os.parameterOperandInfo # <<>> THEN
        LET p == os.parameterOperandInfo
            k == os.parameterOperandIndex
            last == Len(p) = k + 1
            s == [os EXCEPT !.parameterOperandIndex = IF last THEN 0 ELSE k + 1,
                            !.parameterOperandInfo = IF last THEN QueueHead(os.parameterOperandQueue) ELSE p,
                            !.parameterOperandQueue = IF last THEN QueueRest(@) ELSE @]
        IN  IF k < Len(p) THEN [s EXCEPT !.operandInfo = p[k + 1]]
            ELSE Throw(s, "assert: Unable to find operands from grammar file")
    ELSE IF os.specConstantOpInfo # NoIndex THEN
        LET info == Instructions[os.specConstantOpInfo]
            k == os.specConstantOpIndex
        IN  IF ~info.hasOperands
            THEN Throw(os, "TypeError: specConstantOpInfo.operands is undefined")
            ELSE IF k < Len(info.operands)
            THEN [os EXCEPT !.operandInfo = info.operands[k + 1], !.specConstantOpIndex = k + 1]
            ELSE Throw([os EXCEPT !.specConstantOpIndex = k + 1],
                       "assert: Unable to find operands from grammar file")
    ELSE
        LET k == os.grammarOperandIndex
        IN  IF ctx.opcode \notin DOMAIN Instructions
            THEN Throw(os, "TypeError: instructionInfo is undefined")
            ELSE IF ~Instructions[ctx.opcode].hasOperands
            THEN Throw(os, "TypeError: instructionInfo.operands is undefined")
            ELSE IF k < Len(Instructions[ctx.opcode].operands)
            THEN [os EXCEPT !.operandInfo = Instructions[ctx.opcode].operands[k + 1],
                            !.grammarOperandIndex = k + 1]
            ELSE Throw([os EXCEPT !.grammarOperandIndex = k + 1],
                       "assert: Unable to find operands from grammar file")

\* main.js:349-360: an IdRef with quantifier '*' takes every remaining word
RECURSIVE IdRefArray(_, _, _)
IdRefArray(ctx, os, quantifierIndex) ==
    IF os.err # "" \/ ~(os.operandOffset < ctx.instructionLength) THEN os
    ELSE LET nextOperand == ModuleAt(ctx.module, ctx.i + os.operandOffset)
             s == ConsumeId(ctx, os, nextOperand)
         IN  IF s.err # "" THEN s
             ELSE IdRefArray(ctx, PushName(Say([s EXCEPT !.operandOffset = @ + 1],
                                               <<32>> \o IdText(nextOperand)),
                                           OperandName(os.operandInfo), quantifierIndex),
                             quantifierIndex + 1)

\* main.js:361-368 and 476-481: one id
IdRefOne(ctx, os, operand) ==
    LET s == ConsumeId(ctx, os, operand)
    IN  IF s.err # "" THEN s
        ELSE PushName(Say([s EXCEPT !.operandOffset = @ + 1], <<32>> \o IdText(operand)),
                      OperandName(os.operandInfo), -1)

\* Math.ceil((literalString.length + 1) / 4)
StringWords(str) == (Len(str) + 1 + 3) \div 4

\* main.js:370-386
LiteralString(ctx, os) ==
    LET literalString == getLiteralString(
            Slice(ctx.module, ctx.i + os.operandOffset, ctx.i + ctx.instructionLength))
        s == IF ctx.opcode \in {Op.OpSource, Op.OpSourceContinued, Op.OpModuleProcessed}
             THEN Say([os EXCEPT !.debugStringMap = MapSet(@, ctx.instructionCount, literalString)],
                      <<32, 99, 108, 105, 99, 107, 32, 116, 111, 32, 118, 105, 101, 119>>)  \* ' click to view'
             ELSE Say(os, <<32, 34>> \o literalString \o <<34>>)
    IN  PushName([s EXCEPT !.operandOffset = @ + StringWords(literalString)],
                 OperandName(os.operandInfo), -1)

\* main.js:388-392
LiteralInteger(ctx, os) ==
    PushName(Say([os EXCEPT !.operandOffset = @ + 1],
                 <<32>> \o WordToString(ModuleAt(ctx.module, ctx.i + os.operandOffset))),
             OperandName(os.operandInfo), -1)

\* the number a word holds when it is small enough to be a key of a grammar map
SmallKey(w) == IF w # Undefined /\ w[1] = 0 THEN w[2] ELSE NoIndex

\* main.js:394-406
LiteralExtInstInteger(ctx, os, operand) ==
    IF ctx.opcode # Op.OpExtInst
    THEN Throw(os, "assert: Makes assumption OpExtInst is only opcode with LiteralExtInstInteger")
    ELSE LET setId == ModuleAt(ctx.module, ctx.i + 3)
         IN  IF HasExtInstructions(ctx.ResultToExtImport, setId)
                /\ SmallKey(operand) \notin DOMAIN getExtInstructions(ctx.ResultToExtImport, setId)
             THEN Throw(os, "TypeError: extInstructionSet.get(operand) is undefined")
             ELSE PushName(
                      Say([os EXCEPT !.operandOffset = @ + 1],
                          <<32>> \o (IF HasExtInstructions(ctx.ResultToExtImport, setId)
                                     THEN Spelling[getExtInstructions(ctx.ResultToExtImport, setId)[SmallKey(operand)]]
                                     ELSE WordToString(operand))),
                      OperandName(os.operandInfo), -1)

\* main.js:408-416
LiteralSpecConstantOpInteger(ctx, os, operand) ==
    LET specOpcode == SmallKey(operand)
    IN  IF specOpcode \notin DOMAIN Instructions
        THEN Throw(os, "TypeError: specConstantOpInfo is undefined")
        ELSE PushName([Say(os, <<32>> \o Spelling[Instructions[specOpcode].opname]) EXCEPT
                 !.specConstantOpInfo = specOpcode,
                 !.operandOffset = @ + 1,
                 !.specConstantOpIndex =
                     (IF specOpcode \in OpcodesWithResultType THEN 1 ELSE 0)
                     + (IF specOpcode \in OpcodesWithResult THEN 1 ELSE 0)],
               OperandName(os.operandInfo), -1)

\* main.js:418-474: the literal of OpConstant / OpSpecConstant
LiteralContextDependentNumber(ctx, os, operand) ==
    IF ctx.opcode \notin {Op.OpConstant, Op.OpSpecConstant}
    THEN Throw(os, "assert: unknown opcode is using LiteralContextDependentNumber grammar")
    ELSE
    LET typeIndex == MapGetIndex(ctx.resultToInstructionMap, ModuleAt(ctx.module, ctx.i + 1))
        width == ctx.instructionLength - 3
        low == ModuleAt(ctx.module, ctx.i + 3)
        high == ModuleAt(ctx.module, ctx.i + 4)
        Finish(value) ==
            PushName([Say(os, <<32>> \o ValueText(value)) EXCEPT
                !.constantValues = MapSet(@, ModuleAt(ctx.module, ctx.i + 2),
                                          [spec |-> ctx.opcode = Op.OpSpecConstant, value |-> value]),
                !.operandOffset = @ + width],
              OperandName(os.operandInfo), -1)
    IN  IF typeIndex \notin DOMAIN ctx.instructionMap
        THEN Throw(os, "TypeError: contextInstruction is undefined")
        ELSE
        LET contextInstruction == ctx.instructionMap[typeIndex]
            signedness == ModuleAt(ctx.module, contextInstruction.moduleOffset + 3)
        IN  IF contextInstruction.opcode = Op.OpTypeInt THEN
                IF ~(width <= 2) THEN Throw(os, "assert: parsing wide int is not supported")
                ELSE IF width = 2 THEN
                    IF low = Undefined \/ (high = Undefined /\ signedness # Word(1))
                    THEN Throw(os, "TypeError: Cannot convert undefined to a BigInt")
                    ELSE Finish(Int64(signedness, high, low))
                ELSE IF signedness = Word(1) THEN Finish(ToInt32(operand))
                ELSE IF operand = Undefined THEN Finish([tag |-> "undefined"])
                ELSE Finish(Uint32(operand))
            ELSE IF contextInstruction.opcode = Op.OpTypeFloat THEN
                IF ~(width <= 2) THEN Throw(os, "assert: parsing wide float is not supported")
                ELSE IF low = Undefined \/ (width = 2 /\ high = Undefined)
                THEN Throw(os, "TypeError: module[i + 3] is undefined")
                ELSE IF width = 2 THEN Finish(parseFloatString(64, high, low))
                ELSE Finish(parseFloatString(32, Word(0), low))
            ELSE Throw(os, "assert: OpConstant/OpSpecConstant result type is not OpTypeInt or OpTypeFloat")

\* ' (' + first + ' : ' + second + ') ' (main.js:491-495, 504-508, 517-521)
PairText(open, first, second) ==
    <<32>> \o open \o first \o <<32, 58, 32>> \o second \o <<41, 32>>

\* main.js:483-533: the rest of the instruction, two words at a time
RECURSIVE PairOperands(_, _, _)
PairOperands(ctx, os, quantifierIndex) ==
    IF os.err # "" \/ ~(os.operandOffset < ctx.instructionLength) THEN os
    ELSE
    LET nextOperand == ModuleAt(ctx.module, ctx.i + os.operandOffset)
        nextNextOperand == ModuleAt(ctx.module, ctx.i + os.operandOffset + 1)
        a == IF ctx.opcode # Op.OpSwitch THEN os
             ELSE LET s == ConsumeId(ctx, Say(os, PairText(<<40, 67, 97, 115, 101, 32>>, WordToString(nextOperand),
                                                          IdText(nextNextOperand))),
                                     nextNextOperand)
                  IN  IF s.err # "" THEN s ELSE PushName(PushName(s, "Case", -1), "Id", -1)
        b == IF a.err # "" \/ ctx.opcode # Op.OpGroupMemberDecorate THEN a
             ELSE LET s == ConsumeId(ctx, Say(a, PairText(<<40>>, IdText(nextOperand),
                                                         WordToString(nextNextOperand))),
                                     nextOperand)
                  IN  IF s.err # "" THEN s
                      ELSE PushName(PushName(s, "Id", quantifierIndex), "Member", quantifierIndex)
        c == IF b.err # "" \/ ctx.opcode # Op.OpPhi THEN b
             ELSE LET s1 == ConsumeId(ctx, Say(b, PairText(<<40>>, IdText(nextOperand),
                                                          IdText(nextNextOperand))),
                                      nextOperand)
                      \* both idConsumers pushes come before both operandIdList pushes
                      s2 == IF s1.err # "" THEN s1
                            ELSE IF ~HasConsumers(s1.idConsumers, nextNextOperand)
                            THEN Throw([s1 EXCEPT !.operandIdList = b.operandIdList],
                                       "TypeError: idConsumers[id] is undefined")
                            ELSE ConsumeId(ctx, s1, nextNextOperand)
                  IN  IF s2.err # "" THEN s2
                      ELSE PushName(PushName(s2, "Variable", quantifierIndex),
                                    "Parent", quantifierIndex)
    IN  IF c.err # "" THEN c
        ELSE PairOperands(ctx, [c EXCEPT !.operandOffset = @ + 2], quantifierIndex + 1)

\* main.js:548-578: the indices of the enumerants the operand word selects:
\* every flag of a BitEnum that shares a bit with it or equals it, the first
\* equal value of any other category
MatchedEnumerants(kindInfo, operand) ==
    LET n == Len(kindInfo.enumerants)
        Hit(k) ==
            IF kindInfo.category = "BitEnum"
            THEN LET value == ParseHex(kindInfo.enumerants[k].value, Word(0))
                 IN  (operand # Undefined /\ WordAnd(value, operand) # Word(0)) \/ value = operand
            ELSE Word(kindInfo.enumerants[k].value) = operand
        hits == SelectSeq([k \in 1..n |-> k], Hit)
    IN  IF kindInfo.category = "BitEnum" \/ hits = <<>> THEN hits ELSE <<hits[1]>>

\* the parameter lists the matched enumerants push on parameterOperandQueue
RECURSIVE MatchedParameters(_, _)
MatchedParameters(kindInfo, hits) ==
    IF hits = <<>> THEN <<>>
    ELSE LET p == kindInfo.enumerants[hits[1]].parameters
         IN  (IF p = <<>> THEN <<>> ELSE <<p>>) \o MatchedParameters(kindInfo, Tail(hits))

\* the flags shown before all but the first matched enumerant
BitEnumString_NoSeparator(kindInfo, hits) ==
    IF kindInfo.category # "BitEnum" THEN <<>>
    ELSE [k \in 1..Len(hits) |-> kindInfo.enumerants[hits[k]].enumerant]

\* main.js:545-561: bitEnumString, '' for a ValueEnum; a string made of
\* enumerant names is kept as the sequence of its pieces
BitEnumString(kindInfo, hits) ==
    IF kindInfo.category # "BitEnum" THEN <<>>
    ELSE [k \in 1..(2 * Len(hits) - 1) |->
             IF k % 2 = 1 THEN kindInfo.enumerants[hits[(k + 1) \div 2]].enumerant ELSE " | "]

\* main.js:569-570 and 590-592: ' ' and the enumerant of a ValueEnum or the
\* bitEnumString of a BitEnum, if a value was found
EnumerantText(kindInfo, hits) ==
    IF hits = <<>> THEN <<>>
    ELSE IF kindInfo.category = "BitEnum" THEN <<32>> \o Pieces(BitEnumString(kindInfo, hits))
    ELSE <<32>> \o Spelling[kindInfo.enumerants[hits[1]].enumerant]

\* main.js:580-593: what a matched enumerant does to the cursors.  A word
\* that matches no enumerant changes nothing: the loop goes on to the next
\* descriptor with the same word.
EnumerantFound(os, name, queue, found) ==
    IF ~found THEN [os EXCEPT !.parameterOperandQueue = queue, !.foundValue = "false"]
    ELSE PushName([os EXCEPT
             !.foundValue = "true",
             !.operandOffset = @ + 1,
             !.parameterOperandInfo = IF queue # <<>> THEN Head(queue) ELSE @,
             !.parameterOperandQueue = IF queue # <<>> THEN Tail(queue) ELSE queue],
           name, -1)

\* main.js:534-595: any kind not handled above is looked up in spirv.Operands
EnumOperand(ctx, os, operand) ==
    LET kind == os.operandInfo.kind
        name == OperandName(os.operandInfo)
    IN  IF kind \notin DOMAIN Operands
        THEN Throw(os, "assert: Unknown grammar kind")
        ELSE
        LET kindInfo == Operands[kind]
            s == [os EXCEPT !.operandInfo = Desc(kind, "", "")]
            hits == MatchedEnumerants(kindInfo, operand)
            queue == s.parameterOperandQueue \o MatchedParameters(kindInfo, hits)
        IN  IF kindInfo.enumerants = <<>> THEN s
            ELSE EnumerantFound(
                     Say([s EXCEPT !.bitEnumString = BitEnumString(kindInfo, hits)],
                         EnumerantText(kindInfo, hits)),
                     name, queue, hits # <<>>)

\* main.js:334-595: the branch for the descriptor's kind
OperandKind(ctx, s, operand, kind) ==
            IF kind \in {"IdResultType", "IdResult"}
                THEN Throw(s, "assert: Should not have to handle IdResultType or IdResult here")
            ELSE IF kind = "IdRef"
                THEN IF s.optionalArray THEN IdRefArray(ctx, s, 0) ELSE IdRefOne(ctx, s, operand)
            ELSE IF kind = "LiteralString" THEN LiteralString(ctx, s)
            ELSE IF kind = "LiteralInteger" THEN LiteralInteger(ctx, s)
            ELSE IF kind = "LiteralExtInstInteger" THEN LiteralExtInstInteger(ctx, s, operand)
            ELSE IF kind = "LiteralSpecConstantOpInteger"
                THEN LiteralSpecConstantOpInteger(ctx, s, operand)
            ELSE IF kind = "LiteralContextDependentNumber"
                THEN LiteralContextDependentNumber(ctx, s, operand)
            ELSE IF kind \in {"IdMemorySemantics", "IdScope"} THEN IdRefOne(ctx, s, operand)
            ELSE IF kind \in {"PairLiteralIntegerIdRef", "PairIdRefLiteralInteger", "PairIdRefIdRef"}
                THEN PairOperands(ctx, s, 0)
            ELSE EnumOperand(ctx, s, operand)

\* main.js:326-332: optionalArray = operandInfo.quantifier == '*'
SetOptionalArray(sel) ==
    IF sel.err # "" THEN sel
    ELSE [sel EXCEPT !.optionalArray = (sel.operandInfo.quantifier = "*")]

\* main.js:293-596: one turn of the operand loop
OperandDispatch(ctx, s, operand) ==
    IF s.err # "" THEN s ELSE OperandKind(ctx, s, operand, s.operandInfo.kind)

OperandStep(ctx, os) ==
    OperandDispatch(ctx, SetOptionalArray(SelectOperandInfo(ctx, os)),
                    ModuleAt(ctx.module, ctx.i + os.operandOffset))

\* while (operandOffset < instructionLength)
RECURSIVE OperandLoop(_, _)
OperandLoop(ctx, os) ==
    IF os.err # "" \/ ~(os.operandOffset < ctx.instructionLength) THEN os
    ELSE OperandLoop(ctx, OperandStep(ctx, os))

-----------------------------------------------------------------------------
(* Pass 1 (main.js:109-663), one instruction at a time.  st is the record   *)
(* of the decoder's tables and of the locals of parseBinaryStream; c is     *)
(* what main.js:110-119 reads for the instruction at word offset st.i.      *)

IndentLimit == 1024

\* "[empty string]"
EmptyStringName == <<91, 101, 109, 112, 116, 121, 32, 115, 116, 114, 105, 110, 103, 93>>

Fail(st, msg) == [st EXCEPT !.err = msg]

\* main.js:110-119
ResultWords(st, instructionLength, opcode, hasResultType, hasResult) ==
    [instructionLength |-> instructionLength,
     opcode |-> opcode,
     hasResultType |-> hasResultType,
     hasResult |-> hasResult,
     opcodeResultType |-> IF hasResultType THEN ModuleAt(st.module, st.i + 1) ELSE Undefined,
     opcodeResult |-> IF hasResult
                      THEN (IF hasResultType THEN ModuleAt(st.module, st.i + 2)
                            ELSE ModuleAt(st.module, st.i + 1))
                      ELSE Undefined]

HasResults(st, instructionLength, opcode) ==
    ResultWords(st, instructionLength, opcode,
                opcode \in OpcodesWithResultType, opcode \in OpcodesWithResult)

InstructionContext(st) ==
    HasResults(st, InstructionLength(ModuleAt(st.module, st.i)),
               InstructionOpcode(ModuleAt(st.module, st.i)))

\* main.js:127-139
SectionOf(st, class) ==
    IF ~st.insertedDebug /\ class = "Debug"
        THEN [st EXCEPT !.insertedDebug = TRUE, !.currentInstructionDiv = TRUE]
    ELSE IF ~st.insertedAnnotation /\ class = "Annotation"
        THEN [st EXCEPT !.insertedAnnotation = TRUE, !.currentInstructionDiv = TRUE]
    ELSE IF ~st.insertedType /\ class = "Type-Declaration"
        THEN [st EXCEPT !.insertedType = TRUE, !.currentInstructionDiv = TRUE]
    ELSE st

\* main.js:123-139: instructionInfo.class is read, and throws for an opcode
\* without a grammar record, unless all three sections were inserted before
SectionLabels(st, c) ==
    IF c.opcode \notin DOMAIN Instructions
    THEN IF st.insertedDebug /\ st.insertedAnnotation /\ st.insertedType THEN st
         ELSE Fail(st, "TypeError: instructionInfo is undefined")
    ELSE SectionOf(st, Instructions[c.opcode].class)

\* indentStack[indentStack.length - 1]
StackTop(stack) == IF stack = <<>> THEN Undefined ELSE stack[Len(stack)]

\* IndentStack without the assert on the depth
IndentStack_NoLimit(st, c) ==
    LET word1 == ModuleAt(st.module, st.i + 1)
    IN  [st EXCEPT !.indentStack =
            IF c.opcode \in {Op.OpLoopMerge, Op.OpSelectionMerge}
                THEN Append(st.indentStack, word1)
            ELSE IF c.opcode = Op.OpLabel /\ StackTop(st.indentStack) = word1
                    /\ st.indentStack # <<>>
                THEN SubSeq(st.indentStack, 1, Len(st.indentStack) - 1)
            ELSE st.indentStack]

\* main.js:143-156
IndentStack(st, c) ==
    LET word1 == ModuleAt(st.module, st.i + 1)
        stack == IF c.opcode \in {Op.OpLoopMerge, Op.OpSelectionMerge}
                     THEN Append(st.indentStack, word1)
                 ELSE IF c.opcode = Op.OpLabel /\ StackTop(st.indentStack) = word1
                          /\ st.indentStack # <<>>
                     THEN SubSeq(st.indentStack, 1, Len(st.indentStack) - 1)
                 ELSE st.indentStack
        s == [st EXCEPT !.indentStack = stack]
    IN  IF Len(stack) < IndentLimit THEN s
        ELSE Fail(s, "assert: Control-flow nesting depth limit hit")

\* main.js:158-201: function and block boundaries; a label gets the DOM
\* element 'label-' + instructionCount inside the current function's element.
\* currentFunctionDiv and currentInstructionDiv are TRUE when they hold an
\* element and FALSE when they hold undefined.
Boundaries(st, c) ==
    IF c.opcode = Op.OpFunction
        THEN [st EXCEPT !.currentFunction = st.instructionCount, !.currentFunctionDiv = TRUE,
                        !.currentInstructionDiv = TRUE]
    ELSE IF c.opcode = Op.OpFunctionEnd
        THEN [st EXCEPT !.currentInstructionDiv = st.currentFunctionDiv]
    ELSE IF c.opcode = Op.OpLabel
        THEN LET s == [st EXCEPT !.currentBlock = st.instructionCount]
             IN  IF ~st.currentFunctionDiv THEN Fail(s, "assert: OpLabel not in a function block")
                 ELSE [s EXCEPT !.labelDivs = @ \cup {st.instructionCount},
                                !.currentInstructionDiv = TRUE]
    ELSE st

\* main.js:213-218: the default label and the label of every case
RECURSIVE SwitchDestinations(_, _, _, _)
SwitchDestinations(m, i, operand, instructionLength) ==
    IF ~(operand < instructionLength) THEN <<>>
    ELSE <<ModuleAt(m, i + operand)>> \o SwitchDestinations(m, i, operand + 2, instructionLength)

\* main.js:203-222
BranchMap(st, c) ==
    LET branchDestinations ==
            IF c.opcode = Op.OpBranch THEN <<ModuleAt(st.module, st.i + 1)>>
            ELSE IF c.opcode = Op.OpBranchConditional
                THEN <<ModuleAt(st.module, st.i + 2), ModuleAt(st.module, st.i + 3)>>
            ELSE IF c.opcode = Op.OpSwitch
                THEN <<ModuleAt(st.module, st.i + 2)>>
                     \o SwitchDestinations(st.module, st.i, 4, c.instructionLength)
            ELSE <<>>
    IN  IF branchDestinations # <<>>
        THEN [st EXCEPT !.branchMap = MapSet(@, st.instructionCount, branchDestinations)]
        ELSE st

\* main.js:225-229
ExtInstImport(st, c) ==
    IF c.opcode = Op.OpExtInstImport
    THEN [st EXCEPT !.ResultToExtImport =
             setResultToExtImportMap(@,
                 getLiteralString(Slice(st.module, st.i + 2, st.i + c.instructionLength)),
                 c.opcodeResult)]
    ELSE st

\* a result id that is already registered keeps its first instruction
RegisterResult_KeepFirst(map, opcodeResult, instructionCount) ==
    IF opcodeResult \in DOMAIN map THEN map ELSE MapSet(map, opcodeResult, instructionCount)

\* main.js:237-250: resultToInstructionMap.set(opcodeResult, instructionCount)
RegisterResult(map, opcodeResult, instructionCount) == MapSet(map, opcodeResult, instructionCount)

\* what the operand loop leaves in the tables and in the two per-instruction lists
OperandsDone(r, os) ==
    [r EXCEPT !.idConsumers = os.idConsumers, !.debugStringMap = os.debugStringMap,
              !.constantValues = os.constantValues, !.err = os.err,
              !.foundValue = os.foundValue, !.bitEnumString = os.bitEnumString,
              !.instructionString = os.instructionString,
              !.operandNameList = os.operandNameList, !.operandIdList = os.operandIdList]

\* main.js:238-250
ResultRegistered(st, c) ==
    IF c.hasResult
    THEN [st EXCEPT !.resultToInstructionMap =
                        RegisterResult(@, c.opcodeResult, st.instructionCount)]
    ELSE st

\* main.js:235-247: the count, the result, the operation and the result type
InstructionHead(instructionCount, c) ==
    <<91>> \o DecimalDigits(Word(instructionCount)) \o <<93, EmSpace>>
    \o (IF c.hasResult THEN <<32>> \o IdText(c.opcodeResult) \o <<32, 61, 32>> ELSE <<>>)
    \o <<32>> \o OpKey(c.opcode)
    \o (IF c.hasResultType THEN <<32>> \o IdText(c.opcodeResultType) ELSE <<>>)

\* main.js:252-596: the operands, starting after result type and result
OperandsFrom(r, c) ==
    LET skip == (IF c.hasResultType THEN 1 ELSE 0) + (IF c.hasResult THEN 1 ELSE 0)
        ctx == [module |-> r.module, i |-> r.i, instructionCount |-> r.instructionCount,
                opcode |-> c.opcode, instructionLength |-> c.instructionLength,
                instructionMap |-> r.instructionMap,
                resultToInstructionMap |-> r.resultToInstructionMap,
                ResultToExtImport |-> r.ResultToExtImport]
        os0 == [operandOffset |-> 1 + skip, grammarOperandIndex |-> skip,
                optionalArray |-> FALSE, operandInfo |-> Desc("", "", ""),
                parameterOperandInfo |-> <<>>, parameterOperandIndex |-> 0,
                parameterOperandQueue |-> <<>>,
                specConstantOpInfo |-> NoIndex, specConstantOpIndex |-> 0,
                operandNameList |-> IF c.hasResultType
                                    THEN <<[name |-> "Result Type", index |-> -1]>> ELSE <<>>,
                operandIdList |-> <<>>,
                idConsumers |-> r.idConsumers, debugStringMap |-> r.debugStringMap,
                constantValues |-> r.constantValues, foundValue |-> r.foundValue,
                bitEnumString |-> r.bitEnumString,
                instructionString |-> InstructionHead(r.instructionCount, c),
                err |-> ""]
        os1 == IF c.hasResultType THEN ConsumeId(ctx, os0, c.opcodeResultType) ELSE os0
    IN  OperandsDone(r, OperandLoop(ctx, os1))

Operands1(st, c) == OperandsFrom(ResultRegistered(st, c), c)

\* main.js:598-603: currentInstructionDiv.appendChild(newDiv).  displayDiv
\* is kept as the innerHTML of the instruction elements under it, in order.
AppendInstruction(st, c) ==
    IF st.currentInstructionDiv THEN [st EXCEPT !.displayDiv = Append(@, st.instructionString)]
    ELSE Fail(st, "TypeError: currentInstructionDiv is undefined")

\* main.js:606-616
OpNameEntry(st, c) ==
    IF c.opcode = Op.OpName
    THEN LET name == getLiteralString(Slice(st.module, st.i + 2, st.i + c.instructionLength))
         IN  [st EXCEPT !.opNameMap = MapSet(@, ModuleAt(st.module, st.i + 1),
                                             IF name = <<>> THEN EmptyStringName ELSE name)]
    ELSE st

\* main.js:618-646
ConstantEntry(st, c) ==
    LET key == ModuleAt(st.module, st.i + 2)
        Set(spec, tag) == [st EXCEPT !.constantValues =
                              MapSet(@, key, [spec |-> spec, value |-> [tag |-> tag]])]
    IN  IF c.opcode = Op.OpConstantTrue THEN Set(FALSE, "True")
        ELSE IF c.opcode = Op.OpConstantFalse THEN Set(FALSE, "False")
        ELSE IF c.opcode = Op.OpConstantNull THEN Set(FALSE, "Null")
        ELSE IF c.opcode = Op.OpSpecConstantTrue THEN Set(TRUE, "True")
        ELSE IF c.opcode = Op.OpSpecConstantFalse THEN Set(TRUE, "False")
        ELSE st

\* main.js:648-662
StoreInstruction(st, c) ==
    [st EXCEPT !.instructionMap = MapSet(@, st.instructionCount,
                   [moduleOffset |-> st.i, block |-> st.currentBlock,
                    function |-> st.currentFunction, opcode |-> c.opcode,
                    result |-> c.opcodeResult, resultType |-> c.opcodeResultType,
                    operandNameList |-> st.operandNameList,
                    operandIdList |-> st.operandIdList,
                    parentInstructions |-> <<>>]),
               !.operandNameList = <<>>,
               !.operandIdList = <<>>,
               !.i = @ + c.instructionLength,
               !.instructionCount = @ + 1]

\* the k-th part of the body of the first pass loop
Pass1Stage(st, c, k) ==
    CASE k = 1 -> SectionLabels(st, c)
      [] k = 2 -> IndentStack(st, c)
      [] k = 3 -> Boundaries(st, c)
      [] k = 4 -> BranchMap(st, c)
      [] k = 5 -> ExtInstImport(st, c)
      [] k = 6 -> Operands1(st, c)
      [] k = 7 -> AppendInstruction(st, c)
      [] k = 8 -> OpNameEntry(st, c)
      [] k = 9 -> ConstantEntry(st, c)
      [] OTHER -> StoreInstruction(st, c)

\* the parts from the k-th on, in order, up to the first that throws
RECURSIVE Pass1Stages(_, _, _)
Pass1Stages(st, c, k) ==
    IF st.err # "" \/ k > 10 THEN st
    ELSE Pass1Stages(Pass1Stage(st, c, k), c, k + 1)

\* one turn of the first pass loop
Pass1Instruction(st) == Pass1Stages(st, InstructionContext(st), 1)

-----------------------------------------------------------------------------
(* Pass 2 (main.js:667-719), one instruction at a time.                     *)

\* document.getElementById('label-' + block) is null unless a label element
\* with that number was created in pass 1; .className on null throws
HasLabel(st, block) == block \in st.labelDivs

\* (instructionMap.get(resultToInstructionMap.get(id))).block
HasProducer(st, id) == MapGetIndex(st.resultToInstructionMap, id) \in DOMAIN st.instructionMap

ProducerBlock(st, id) == st.instructionMap[MapGetIndex(st.resultToInstructionMap, id)].block

\* main.js:686-691: the blocks that branch to the merge block get a class
BreakBlocksHaveLabels(st, mergeBlock) ==
    LET mergeBlockResult == st.instructionMap[mergeBlock].result
    IN  \A key \in DOMAIN st.branchMap :
            (\E k \in 1..Len(st.branchMap[key]) : st.branchMap[key][k] = mergeBlockResult)
                => HasLabel(st, st.instructionMap[key].block)

\* main.js:675-705
BlockClasses(st, c) ==
    LET currentInstruction == st.instructionMap[st.instructionCount]
        headerBlock == currentInstruction.block
        merge == ModuleAt(st.module, st.i + 1)
        continue == ModuleAt(st.module, st.i + 2)
    IN  IF c.opcode = Op.OpLoopMerge THEN
            IF ~HasProducer(st, merge) \/ ~HasProducer(st, continue)
                THEN Fail(st, "TypeError: instructionMap.get(undefined) is undefined")
            ELSE IF ~HasLabel(st, headerBlock) \/ ~HasLabel(st, ProducerBlock(st, merge))
                    \/ ~HasLabel(st, ProducerBlock(st, continue))
                THEN Fail(st, "TypeError: document.getElementById(label) is null")
            ELSE IF ~BreakBlocksHaveLabels(st, ProducerBlock(st, merge))
                THEN Fail(st, "TypeError: document.getElementById(label) is null")
            ELSE st
        ELSE IF c.opcode = Op.OpSelectionMerge THEN
            IF ~HasProducer(st, merge)
                THEN Fail(st, "TypeError: instructionMap.get(undefined) is undefined")
            ELSE IF ~HasLabel(st, headerBlock) \/ ~HasLabel(st, ProducerBlock(st, merge))
                THEN Fail(st, "TypeError: document.getElementById(label) is null")
            ELSE st
        ELSE IF c.opcode \in {Op.OpReturn, Op.OpReturnValue} THEN
            IF ~HasLabel(st, headerBlock)
                THEN Fail(st, "TypeError: document.getElementById(label) is null")
            ELSE st
        ELSE st

\* main.js:707-714: parentInstructions.push(resultToInstructionMap.get(operandIdList[i]))
ResolveParents(map, operandIdList) ==
    [k \in 1..Len(operandIdList) |-> MapGetIndex(map, operandIdList[k])]

\* main.js:707-718
ParentInstructions(st, c) ==
    [st EXCEPT !.instructionMap[st.instructionCount].parentInstructions =
                   ResolveParents(st.resultToInstructionMap,
                                  st.instructionMap[st.instructionCount].operandIdList),
               !.i = @ + c.instructionLength,
               !.instructionCount = @ + 1]

\* main.js:707-718 are reached unless main.js:675-705 have thrown
ParentsAfter(st, c) == IF st.err # "" THEN st ELSE ParentInstructions(st, c)

\* one turn of the second pass loop
Pass2Stages(st, c) == ParentsAfter(BlockClasses(st, c), c)

Pass2Instruction(st) == Pass2Stages(st, InstructionContext(st))

-----------------------------------------------------------------------------
(* parseBinaryStream up to the first pass (main.js:46-107) *)

\* binary.byteLength of a buffer of whole words followed by 0..3 more bytes
ByteLength(b) == 4 * Len(b.words) + b.extraBytes

\* validateHeader without the check of the schema word
validateHeader_NoSchemaCheck(header) ==
    IF ModuleAt(header, 0) # MagicNumber THEN "assert: Magic Number doesn't match"
    ELSE IF ~WordLessEq(ModuleAt(header, 1), Version)
        THEN "assert: SPIR-V Headers are older than version of module"
    ELSE ""

\* spirv.validateHeader: the message of the first assert that fails, or ""
validateHeader(header) ==
    IF ModuleAt(header, 0) # MagicNumber THEN "assert: Magic Number doesn't match"
    ELSE IF ~WordLessEq(ModuleAt(header, 1), Version)
        THEN "assert: SPIR-V Headers are older than version of module"
    ELSE IF ModuleAt(header, 4) # Word(0) THEN "assert: Only support schema 0 currently"
    ELSE ""

\* the header validated before the buffer's size is looked at
HeaderError_ValidateFirst(b) ==
    IF validateHeader(Slice(b.words, 0, 5)) # "" THEN validateHeader(Slice(b.words, 0, 5))
    ELSE IF ByteLength(b) % 4 # 0 THEN "assert: File is not 4 byte (32 bit) aligned"
    ELSE IF ~(Len(b.words) >= 5) THEN "assert: module less than 5 dwords"
    ELSE ""

\* main.js:55-61: the checks before the tables are filled
HeaderError(b) ==
    IF ByteLength(b) % 4 # 0 THEN "assert: File is not 4 byte (32 bit) aligned"
    ELSE IF ~(Len(b.words) >= 5) THEN "assert: module less than 5 dwords"
    ELSE validateHeader(Slice(b.words, 0, 5))

\* the number a header word holds
WordValue(w) == w[1] * Half + w[2]

\* the locals as main.js:74-101 declares them
InitLoc ==
    [i |-> 5, instructionCount |-> 0, currentFunction |-> 0, currentBlock |-> 0,
     currentFunctionDiv |-> FALSE, currentInstructionDiv |-> TRUE, indentStack |-> <<>>,
     insertedDebug |-> FALSE, insertedAnnotation |-> FALSE, insertedType |-> FALSE,
     branchMap |-> EmptyMap, labelDivs |-> {},
     operandNameList |-> <<>>, operandIdList |-> <<>>, foundValue |-> "undefined",
     bitEnumString |-> <<>>, instructionString |-> <<>>, displayDiv |-> <<>>]

\* the decoder's state as one record
State ==
    loc @@ [module |-> binary.words, err |-> "",
            instructionMap |-> instructionMap,
            resultToInstructionMap |-> resultToInstructionMap,
            idConsumers |-> idConsumers, opNameMap |-> opNameMap,
            debugStringMap |-> debugStringMap, constantValues |-> constantValues,
            ResultToExtImport |-> ResultToExtImport]

\* the state after a turn of either loop: st.err # "" is an uncaught exception
Commit(st, next) ==
    /\ pc' = IF st.err # "" THEN "fatal" ELSE next
    /\ error' = st.err
    /\ instructionMap' = st.instructionMap
    /\ resultToInstructionMap' = st.resultToInstructionMap
    /\ idConsumers' = st.idConsumers
    /\ opNameMap' = st.opNameMap
    /\ debugStringMap' = st.debugStringMap
    /\ constantValues' = st.constantValues
    /\ ResultToExtImport' = st.ResultToExtImport
    /\ loc' = [f \in DOMAIN loc |-> st[f]]
    /\ UNCHANGED <<binary, inputDiv, assembleCall, pageVars>>

\* resetTracking without the new instructionMap
resetTracking_KeepRecords ==
    /\ instructionMap' = instructionMap
    /\ resultToInstructionMap' = EmptyMap
    /\ opNameMap' = EmptyMap
    /\ debugStringMap' = EmptyMap
    /\ constantValues' = EmptyMap

\* main.js:36-43; idConsumers = [] is in parseBinaryStream below, which fills
\* it at main.js:62-65 when the header is accepted
resetTracking ==
    /\ instructionMap' = EmptyMap
    /\ resultToInstructionMap' = EmptyMap
    /\ opNameMap' = EmptyMap
    /\ debugStringMap' = EmptyMap
    /\ constantValues' = EmptyMap

\* main.js:46-107: decoding starts.  spirv.ResultToExtImport is not reset.
parseBinaryStream(b) ==
    /\ pc \in {"idle", "done", "fatal"}
    /\ binary' = b
    /\ resetTracking
    /\ error' = HeaderError(b)
    /\ pc' = IF HeaderError(b) # "" THEN "fatal" ELSE "pass1"
    /\ idConsumers' = IF HeaderError(b) # "" THEN <<>>
                      ELSE [k \in 1..WordValue(b.words[4]) |-> <<>>]
    /\ loc' = InitLoc

\* toggleDisassemblyInput (unnamed/part_001:136-146): which of the text box
\* and the display is shown.  Hiding the text box leaves its value.
toggleDisassemblyInput(turnOn) ==
    [inputDiv EXCEPT !.display = IF turnOn THEN "inline-block" ELSE "none"]

\* fileSelected (unnamed/part_001:20-40): a file is selected or dropped
fileSelected(data) ==
    /\ inputDiv' = toggleDisassemblyInput(FALSE)
    /\ parseBinaryStream(data)
    /\ UNCHANGED <<ResultToExtImport, assembleCall, pageVars>>

\* the first pass loop never ends on a stream that makes it revisit a word;
\* it is followed for at most one turn per word of the stream and one more
Pass1Step ==
    /\ pc = "pass1"
    /\ loc.i < Len(binary.words)
    /\ loc.instructionCount <= Len(binary.words)
    /\ Commit(Pass1Instruction(State), "pass1")

\* main.js:665-668
Pass1End ==
    /\ pc = "pass1"
    /\ ~(loc.i < Len(binary.words))
    /\ pc' = "pass2"
    /\ loc' = [loc EXCEPT !.i = 5, !.instructionCount = 0]
    /\ UNCHANGED <<binary, error, instructionMap, resultToInstructionMap, idConsumers,
                   opNameMap, debugStringMap, constantValues, ResultToExtImport,
                   inputDiv, assembleCall, pageVars>>

Pass2Step ==
    /\ pc = "pass2"
    /\ loc.i < Len(binary.words)
    /\ Commit(Pass2Instruction(State), "pass2")

\* main.js:721-773: post processing, then return true
Pass2End ==
    /\ pc = "pass2"
    /\ ~(loc.i < Len(binary.words))
    /\ pc' = "done"
    /\ UNCHANGED <<binary, error, instructionMap, resultToInstructionMap, idConsumers,
                   opNameMap, debugStringMap, constantValues, ResultToExtImport, loc,
                   inputDiv, assembleCall, pageVars>>

-----------------------------------------------------------------------------
(* assemble (main.js:1276-1520): text to words.  The state of one call is   *)
(* the record a: the words pushed so far, idMap, idsBound, the two width    *)
(* maps, lastOpExtInst, spirv.ResultToExtImport, and err # "" once an       *)
(* exception has ended the call.  An id, a map key or an array element that *)
(* is undefined is Undefined.                                               *)

SPV_ENV_UNIVERSAL_1_0 == <<1, 0>>

\* line[k] of an array of strings: undefined outside it
LineAt(line, k) == IF k >= 0 /\ k < Len(line) THEN line[k + 1] ELSE Undefined

\* Map.prototype.get where the values are strings or ids
MapGet(map, key) == IF key \in DOMAIN map THEN map[key] ELSE Undefined

\* spirv.NameToOpcode.get (spirv.js:152): NoIndex for undefined
NameToOpcode(name) ==
    IF \E o \in DOMAIN Instructions : Spelling[Instructions[o].opname] = name
    THEN CHOOSE o \in DOMAIN Instructions : Spelling[Instructions[o].opname] = name
    ELSE NoIndex

\* main.js:1300-1309: the text between the first and the last double quote
\* of the line, followed by a zero character
QuotedString(text) ==
    IF IndexOf(text, 34) = -1 THEN Undefined
    ELSE Append(Substring(text, IndexOf(text, 34) + 1, LastIndexOf(text, 34)), 0)

\* Math.ceil(literalString.length / 4) - 1
ExtraWords(literalString) ==
    IF literalString = Undefined THEN 0 ELSE (Len(literalString) + 3) \div 4 - 1

\* main.js:1313: line.trim().replace(/\s{2,}/g, ' ').split(' ')
LineTokens(text) == Split(CollapseWhitespace(Trim(text)), 32)

\* bytes[k] of a Uint8Array shifted and or-ed: undefined counts as zero
ByteAt(bytes, k) == IF k < Len(bytes) THEN bytes[k + 1] ELSE 0

\* main.js:1449-1455: the words of encoder.encode(literalString), four bytes
\* a word, low byte first; encode(undefined) is empty.  The characters of
\* the texts are below 128 and take one byte each.
RECURSIVE EncodeString(_, _)
EncodeString(bytes, k) ==
    IF bytes = Undefined \/ k >= Len(bytes) THEN <<>>
    ELSE <<Pack(ByteAt(bytes, k), ByteAt(bytes, k + 1), ByteAt(bytes, k + 2), ByteAt(bytes, k + 3))>>
         \o EncodeString(bytes, k + 4)

\* a | b on 32-bit words
WordOr(a, b) ==
    <<a[1] + b[1] - BitAnd(a[1], b[1]), a[2] + b[2] - BitAnd(a[2], b[2])>>

\* Number(string), also the conversion setFloat32 and setFloat64 apply: a
\* decimal numeral with an optional sign and fraction, or 0x and hex digits;
\* '' is 0, undefined and the rest NaN.  frac says that the fraction has a
\* digit other than 0.  Exponents and 'Infinity' are not among the texts.
ToNumber(string) ==
    IF string = Undefined THEN NaN
    ELSE LET str == Trim(string)
             body == Unsigned(str)
             n == DigitRun(body, 10)
             rest == SubSeq(body, n + 1, Len(body))
             m == IF rest # <<>> /\ rest[1] = 46 THEN DigitRun(Tail(rest), 10) ELSE 0
         IN  IF str = <<>> THEN Integer(FALSE, <<0, 0, 0, 0>>)
             ELSE IF HasHexPrefix(str)
             THEN IF DigitRun(SubSeq(str, 3, Len(str)), 16) = Len(str) - 2 /\ Len(str) > 2
                  THEN Integer(FALSE, ReadDigits(SubSeq(str, 3, Len(str)), 16, <<0, 0, 0, 0>>))
                  ELSE NaN
             ELSE IF rest = <<>> /\ n > 0
             THEN Integer(SignOf(str), ReadDigits(body, 10, <<0, 0, 0, 0>>))
             ELSE IF rest # <<>> /\ rest[1] = 46 /\ m = Len(rest) - 1 /\ n + m > 0
             THEN [Integer(SignOf(str), ReadDigits(body, 10, <<0, 0, 0, 0>>))
                      EXCEPT !.frac = \E k \in 2..Len(rest) : rest[k] # 48]
             ELSE NaN

\* BigInt(string) accepts '', a decimal numeral with an optional sign, or 0x
\* and hex digits without a sign; anything else throws
IsBigIntLiteral(string) ==
    LET str == Trim(string)
        body == Unsigned(str)
    IN  \/ str = <<>>
        \/ HasHexPrefix(str) /\ Len(str) > 2 /\ DigitRun(SubSeq(str, 3, Len(str)), 16) = Len(str) - 2
        \/ ~HasHexPrefix(str) /\ body # <<>> /\ DigitRun(body, 10) = Len(body)

\* the 64 bits of a BigInt in two's complement, as four limbs
BigIntLimbs(string) ==
    LET num == ToNumber(string)
    IN  IF num.neg THEN NegateLimbs(num.mag) ELSE num.mag

\* the number of bits of a positive integer
RECURSIVE BitLength(_)
BitLength(n) == IF n = 0 THEN 0 ELSE 1 + BitLength(n \div 2)

\* a magnitude as m * 2^shift with m below 2^24.  Rounding to nearest is not
\* modelled: bits below the leading 24 are cut, as is a fraction.
RECURSIVE Leading24(_, _)
Leading24(mag, shift) ==
    IF mag[1] = 0 /\ mag[2] = 0 /\ mag[3] < 256
    THEN [m |-> mag[3] * Half + mag[4], shift |-> shift]
    ELSE Leading24(DivLimbs(mag, 2, 0), shift + 1)

RECURSIVE ShiftLeft(_, _)
ShiftLeft(limbs, n) == IF n = 0 THEN limbs ELSE ShiftLeft(MulAdd(limbs, 2, 0), n - 1)

\* DataView.setFloat32 then getUint32: the IEEE 754 single of a number
Float32Bits(num) ==
    LET sign == IF num.neg THEN Half \div 2 ELSE 0
        l == Leading24(num.mag, 0)
        p == BitLength(l.m) - 1
        bits == Word((p + l.shift + 127) * 128 * Half + (l.m - Pow2(p)) * Pow2(23 - p))
    IN  IF num.nan THEN <<32704, 0>>
        ELSE IF IsZeroLimbs(num.mag) THEN <<sign, 0>>
        ELSE <<bits[1] + sign, bits[2]>>

\* DataView.setFloat64 then getUint32(0) and getUint32(4): the IEEE 754
\* double of a number as four limbs
Float64Bits(num) ==
    LET sign == IF num.neg THEN Half \div 2 ELSE 0
        l == Leading24(num.mag, 0)
        p == BitLength(l.m) - 1
        mantissa == ShiftLeft(<<0, 0, (l.m - Pow2(p)) \div Half, (l.m - Pow2(p)) % Half>>, 52 - p)
    IN  IF num.nan THEN <<32760, 0, 0, 0>>
        ELSE IF IsZeroLimbs(num.mag) THEN <<sign, 0, 0, 0>>
        ELSE [mantissa EXCEPT ![1] = @ + (p + l.shift + 1023) * 16 + sign]

\* words.push
Push(a, w) == [a EXCEPT !.words = Append(@, w)]

\* main.js:1366-1378: the id of a name, handed out at first mention
IdOperand(a, ln) ==
    LET name == LineAt(ln.line, a.lineIndex)
    IN  IF name \in DOMAIN a.idMap
        THEN [Push(a, a.idMap[name]) EXCEPT !.lineIndex = @ + 1]
        ELSE [Push(a, Word(a.idsBound)) EXCEPT
                 !.idMap = MapSet(@, name, Word(a.idsBound)),
                 !.idsBound = @ + 1, !.lineIndex = @ + 1]

\* words.push(parseInt(line[lineIndex++]))
IntegerOperand(a, ln) ==
    [Push(a, NumberToUint32(ParseInt(LineAt(ln.line, a.lineIndex)))) EXCEPT !.lineIndex = @ + 1]

\* words.push(idMap.get(line[lineIndex++])): the name is not bound here
BoundIdOperand(a, ln) ==
    [Push(a, MapGet(a.idMap, LineAt(ln.line, a.lineIndex))) EXCEPT !.lineIndex = @ + 1]

\* main.js:1434-1438: the word five before the end gets one more in its
\* length field
PatchLength(a) ==
    LET k == Len(a.words) - 4
        instruction == a.words[k]
    IN  [a EXCEPT !.words[k] = IF instruction = Undefined THEN <<1, 0>>
                               ELSE <<(InstructionLength(instruction) + 1) % Half,
                                      InstructionOpcode(instruction)>>]

\* main.js:1415-1439
ContextDependentNumber(a, ln) ==
    LET typeId == MapGet(a.idMap, LineAt(ln.line, a.lineIndex - 1))
        bitWidthInt == ParseInt(MapGet(a.bitWidthIntMap, typeId))
        bitWidthFloat == ParseInt(MapGet(a.bitWidthFloatMap, typeId))
        token == LineAt(ln.line, a.lineIndex)
        next == [a EXCEPT !.lineIndex = @ + 1]
    IN  IF NumberIs(bitWidthInt, 64)
        THEN IF token = Undefined THEN Throw(a, "TypeError: Cannot convert undefined to a BigInt")
             ELSE IF ~IsBigIntLiteral(token) THEN Throw(a, "SyntaxError: Cannot convert to a BigInt")
             ELSE PatchLength(Push(Push(next, SubSeq(BigIntLimbs(token), 3, 4)),
                                   SubSeq(BigIntLimbs(token), 1, 2)))
        ELSE IF NumberIs(bitWidthFloat, 32)
        THEN Push(next, Float32Bits(ToNumber(token)))
        ELSE IF NumberIs(bitWidthFloat, 64)
        THEN PatchLength(Push(Push(next, SubSeq(Float64Bits(ToNumber(token)), 3, 4)),
                              SubSeq(Float64Bits(ToNumber(token)), 1, 2)))
        ELSE Push(next, NumberToUint32(ToNumber(token)))

\* the first entry of an extended instruction set with the opname, in the
\* order of the grammar file; NoIndex if there is none
ExtOpcodeOf(set, name) ==
    IF \E op \in DOMAIN set : Spelling[set[op]] = name
    THEN CHOOSE op \in DOMAIN set :
            Spelling[set[op]] = name /\ \A q \in DOMAIN set : Spelling[set[q]] = name => op <= q
    ELSE NoIndex

\* does the enumerant match the token (main.js:1470-1476)
EnumerantNamed(info, e, token) ==
    IF info.category = "BitEnum"
    THEN \E k \in 1..Len(Split(token, 124)) : Split(token, 124)[k] = Spelling[e.enumerant]
    ELSE token = Spelling[e.enumerant]

\* words[enumValueIndex] |= parseInt(enumerant.value), or = enumerant.value
EnumerantValue(a, info, e, enumValueIndex) ==
    IF info.category = "BitEnum"
    THEN [a EXCEPT !.words[enumValueIndex] = WordOr(@, ParseHex(e.value, Word(0)))]
    ELSE [a EXCEPT !.words[enumValueIndex] = Word(e.value)]

RECURSIVE GetOperand(_, _, _)
RECURSIVE GetOperands(_, _, _, _)
RECURSIVE EnumerantLoop(_, _, _, _, _, _)

\* main.js:1379-1401: the opcode of the extended instruction with this name
\* and then its operands, or parseInt of the token when the set of the last
\* OpExtInst is no loaded catalogue or has no such name
ExtInstOperand(a, ln, token) ==
    IF ~HasExtInstructions(a.ResultToExtImport, a.lastOpExtInst) THEN IntegerOperand(a, ln)
    ELSE LET extType == a.ResultToExtImport[a.lastOpExtInst]
             extOpcode == ExtOpcodeOf(ExtInstructions[extType], token)
         IN  IF token = Undefined \/ extOpcode = NoIndex THEN IntegerOperand(a, ln)
             ELSE GetOperands([Push(a, Word(extOpcode)) EXCEPT !.lineIndex = @ + 1], ln,
                              ExtInstructionOperands[extType][extOpcode], 1)

\* main.js:1405-1414: 'Op' + token names the operation; its operands after
\* result type and result follow
SpecConstantOpOperand(a, ln, specOpcode) ==
    IF specOpcode = NoIndex
    THEN Throw(Push(a, Undefined), "TypeError: specInstruction is undefined")
    ELSE IF ~Instructions[specOpcode].hasOperands
    THEN Throw(Push(a, Word(specOpcode)), "TypeError: specInstruction.operands is undefined")
    ELSE GetOperands([Push(a, Word(specOpcode)) EXCEPT !.lineIndex = @ + 1], ln,
                     Instructions[specOpcode].operands, 3)

\* main.js:1456-1487: an enumerant kind
EnumerantOperand(a, ln, kind, token) ==
    IF kind \notin DOMAIN Operands
    THEN Throw(a, "TypeError: operandInfo is undefined")
    ELSE IF Operands[kind].enumerants = <<>>
    THEN Throw(a, "TypeError: operandInfo.enumerants is undefined")
    ELSE IF Operands[kind].category = "BitEnum" /\ token = Undefined
    THEN Throw(a, "TypeError: line[lineIndex] is undefined")
    ELSE EnumerantLoop([Push(a, Word(0)) EXCEPT !.lineIndex = @ + 1], ln, Operands[kind],
                       token, Len(a.words) + 1, 1)

\* main.js:1367-1488, GetOperand(kind)
GetOperand(a, ln, kind) ==
    IF a.err # "" THEN a
    ELSE IF kind \in {"IdRef", "IdScope", "IdMemorySemantics"} THEN IdOperand(a, ln)
    ELSE IF kind = "LiteralExtInstInteger"
    THEN ExtInstOperand(a, ln, LineAt(ln.line, a.lineIndex))
    ELSE IF kind = "LiteralInteger" THEN IntegerOperand(a, ln)
    ELSE IF kind = "LiteralSpecConstantOpInteger"
    THEN SpecConstantOpOperand(a, ln,
             IF LineAt(ln.line, a.lineIndex) = Undefined THEN NoIndex
             ELSE NameToOpcode(<<79, 112>> \o LineAt(ln.line, a.lineIndex)))
    ELSE IF kind = "LiteralContextDependentNumber" THEN ContextDependentNumber(a, ln)
    ELSE IF kind = "PairLiteralIntegerIdRef" THEN BoundIdOperand(IntegerOperand(a, ln), ln)
    ELSE IF kind = "PairIdRefLiteralInteger" THEN IntegerOperand(BoundIdOperand(a, ln), ln)
    ELSE IF kind = "PairIdRefIdRef" THEN BoundIdOperand(BoundIdOperand(a, ln), ln)
    ELSE IF kind = "LiteralString"
    THEN [a EXCEPT !.words = @ \o EncodeString(ln.literalString, 0)]
    ELSE EnumerantOperand(a, ln, kind, LineAt(ln.line, a.lineIndex))

\* GetOperand for each descriptor of a list from the k-th on: the operands
\* of an extended instruction, of the operation of an OpSpecConstantOp, or
\* the parameters of an enumerant
GetOperands(a, ln, operands, k) ==
    IF k > Len(operands) THEN a
    ELSE GetOperands(GetOperand(a, ln, operands[k].kind), ln, operands, k + 1)

\* main.js:1468-1486: every enumerant in catalogue order, each match followed
\* at once by its parameters
EnumerantLoop(a, ln, info, token, enumValueIndex, k) ==
    IF k > Len(info.enumerants) \/ a.err # "" THEN a
    ELSE IF ~EnumerantNamed(info, info.enumerants[k], token)
    THEN EnumerantLoop(a, ln, info, token, enumValueIndex, k + 1)
    ELSE EnumerantLoop(
            GetOperands(EnumerantValue(a, info, info.enumerants[k], enumValueIndex), ln,
                        info.enumerants[k].parameters, 1),
            ln, info, token, enumValueIndex, k + 1)

\* main.js:1504-1510 and 1513-1516: the descriptors of the operation while
\* words are missing, then the last kind again if it was a wildcard
RECURSIVE AssembleOperands(_, _, _, _, _, _)
AssembleOperands(a, ln, operands, operandIndex, isWildcard, kind) ==
    IF a.err # "" \/ ~(Len(a.words) < ln.lastWord) THEN a
    ELSE IF operandIndex < Len(operands)
    THEN AssembleOperands(GetOperand(a, ln, operands[operandIndex + 1].kind), ln, operands,
                          operandIndex + 1, operands[operandIndex + 1].quantifier = "*",
                          operands[operandIndex + 1].kind)
    ELSE IF isWildcard
    THEN AssembleOperands(GetOperand(a, ln, kind), ln, operands, operandIndex + 1, isWildcard, kind)
    ELSE a

\* main.js:1354-1363: the instructions assemble keeps track of
TrackSpecial(a, line, opname) ==
    IF opname = Spelling["OpExtInstImport"]
    THEN IF LineAt(line, 3) = Undefined
         THEN Throw(a, "TypeError: extendedName is undefined")
         ELSE [a EXCEPT !.ResultToExtImport =
                  setResultToExtImportMap(@, LineAt(line, 3), MapGet(a.idMap, LineAt(line, 0)))]
    ELSE IF opname = Spelling["OpExtInst"]
    THEN [a EXCEPT !.lastOpExtInst = MapGet(a.idMap, LineAt(line, 4))]
    ELSE IF opname = Spelling["OpTypeInt"]
    THEN [a EXCEPT !.bitWidthIntMap = MapSet(@, MapGet(a.idMap, LineAt(line, 0)), LineAt(line, 3))]
    ELSE IF opname = Spelling["OpTypeFloat"]
    THEN [a EXCEPT !.bitWidthFloatMap = MapSet(@, MapGet(a.idMap, LineAt(line, 0)), LineAt(line, 3))]
    ELSE a

\* main.js:1321-1326: the name in result position gets an id if it has none
ResultId(a, line, hasResult) ==
    IF hasResult /\ line[1] \notin DOMAIN a.idMap
    THEN [a EXCEPT !.idMap = MapSet(@, line[1], Word(a.idsBound)), !.idsBound = @ + 1]
    ELSE a

\* main.js:1332: words.push((instructionLength << 16) | opcode)
FirstWord(a, instructionLength, opcode) ==
    Push(a, <<instructionLength % Half, IF opcode = NoIndex THEN 0 ELSE opcode>>)

\* main.js:1340-1352: result type and result, each only looked up in idMap
ResultTypeAndResult(a, line, hasResult, hasResultType) ==
    LET r == IF hasResultType
             THEN Push(a, MapGet(a.idMap, IF hasResult THEN LineAt(line, 3) ELSE LineAt(line, 1)))
             ELSE a
    IN  [(IF hasResult THEN Push(r, MapGet(a.idMap, line[1])) ELSE r) EXCEPT
            !.lineIndex = 1 + (IF hasResultType THEN 1 ELSE 0) + (IF hasResult THEN 2 ELSE 0)]

\* main.js:1491-1517: the operands of the line, if the operation has any
LineOperands(a, line, literalString, lastWord, opcode, operandIndex) ==
    IF a.err # "" THEN a
    ELSE IF opcode = NoIndex THEN Throw(a, "TypeError: instructionInfo is undefined")
    ELSE IF ~Instructions[opcode].hasOperands THEN a
    ELSE AssembleOperands(a, [line |-> line, literalString |-> literalString, lastWord |-> lastWord],
                          Instructions[opcode].operands, operandIndex, FALSE, "")

\* main.js:1321-1517 for a line that is neither empty nor a comment
AssembleOperation(a, line, literalString, hasResult, opname, opcode) ==
    LET instructionLength ==
            (IF hasResult THEN Len(line) - 1 ELSE Len(line)) + ExtraWords(literalString)
        hasResultType == opcode \in OpcodesWithResultType
    IN  LineOperands(
            TrackSpecial(
                ResultTypeAndResult(
                    FirstWord(ResultId(a, line, hasResult), instructionLength, opcode),
                    line, hasResult, hasResultType),
                line, opname),
            line, literalString, Len(a.words) + instructionLength, opcode,
            (IF hasResultType THEN 1 ELSE 0) + (IF hasResult THEN 1 ELSE 0))

\* main.js:1330-1331: opcode = spirv.NameToOpcode.get(opname)
AssembleInstruction(a, line, literalString, hasResult, opname) ==
    AssembleOperation(a, line, literalString, hasResult, opname, NameToOpcode(opname))

\* main.js:1313-1319: the tokens of a line that is neither empty nor a comment
AssembleTokens(a, line, literalString) ==
    IF Len(line) = 1 /\ line[1] = <<>> THEN a
    ELSE IF line[1] = <<59>> THEN a
    ELSE AssembleInstruction(a, line, literalString,
                             Len(line) >= 3 /\ line[2] = <<61>>,
                             IF Len(line) >= 3 /\ line[2] = <<61>> THEN line[3] ELSE line[1])

\* main.js:1297-1319: one line of the text
AssembleLine(a, text) == AssembleTokens(a, LineTokens(text), QuotedString(text))

\* spirvText.split('\n').forEach: an exception ends the loop
RECURSIVE AssembleLines(_, _)
AssembleLines(a, lines) ==
    IF lines = <<>> \/ a.err # "" THEN a
    ELSE AssembleLines(AssembleLine(a, lines[1]), Tail(lines))

\* new Uint32Array(words): undefined and NaN become 0
ToUint32Array(words) == [k \in 1..Len(words) |-> IF words[k] = Undefined THEN Word(0) ELSE words[k]]

\* main.js:1276-1517: the locals of assemble after its last line.  version
\* is Undefined when not given.
AssembleState(spirvText, version, extImport) ==
    AssembleLines(
                 [words |-> <<MagicNumber,
                              IF version = Undefined THEN SPV_ENV_UNIVERSAL_1_0 ELSE version,
                              Word(0), Word(0), Word(0)>>,
                  idMap |-> EmptyMap, idsBound |-> 1,
                  bitWidthIntMap |-> EmptyMap, bitWidthFloatMap |-> EmptyMap,
                  lastOpExtInst |-> Word(0), lineIndex |-> 1,
                  ResultToExtImport |-> extImport, err |-> ""],
                 Split(spirvText, 10))

\* main.js:1516-1519: words[3] = idsBound; return new Uint32Array(words).
\* A call that has thrown returns nothing.
Returned(a) ==
    [words |-> IF a.err # "" THEN <<>>
               ELSE ToUint32Array([a.words EXCEPT ![4] = Word(a.idsBound)]),
     err |-> a.err, ResultToExtImport |-> a.ResultToExtImport]

\* main.js:1276-1520: what a call of assemble returns or throws, and the
\* spirv.ResultToExtImport it leaves
assemble(spirvText, version, extImport) == Returned(AssembleState(spirvText, version, extImport))

Buffer(words, extraBytes) == [words |-> words, extraBytes |-> extraBytes]

\* before the first call of assemble
NoCall == [spirvText |-> Undefined, extImport |-> EmptyMap, words |-> <<>>, err |-> ""]

\* the user types or pastes a text into the text box while it is shown
TypeText(text) ==
    /\ pc \in {"idle", "done", "fatal"}
    /\ inputDiv.display = "inline-block"
    /\ inputDiv' = [inputDiv EXCEPT !.value = text]
    /\ UNCHANGED <<binary, pc, error, instructionMap, resultToInstructionMap, idConsumers,
                   opNameMap, debugStringMap, constantValues, ResultToExtImport, loc,
                   assembleCall, pageVars>>

\* the keypress handler of the text box for Enter (unnamed/part_001:153-160):
\* assemble(inputDiv.value), then fileSelected with what it returned.  An
\* exception of assemble ends the handler; what assemble has written to
\* spirv.ResultToExtImport stays either way.  r is what assemble returned.
Assembled(r) ==
    /\ assembleCall' = [spirvText |-> inputDiv.value, extImport |-> ResultToExtImport,
                        words |-> r.words, err |-> r.err]
    /\ ResultToExtImport' = r.ResultToExtImport
    /\ UNCHANGED pageVars
    /\ IF r.err # ""
       THEN UNCHANGED <<binary, pc, error, instructionMap, resultToInstructionMap,
                        idConsumers, opNameMap, debugStringMap, constantValues, loc, inputDiv>>
       ELSE /\ inputDiv' = toggleDisassemblyInput(FALSE)
            /\ parseBinaryStream(Buffer(r.words, 0))

KeypressEnter ==
    /\ pc \in {"idle", "done", "fatal"}
    /\ inputDiv.display = "inline-block"
    /\ Assembled(assemble(inputDiv.value, Undefined, ResultToExtImport))

\* the click handler of #clearAll (unnamed/part_001:187-191): the text box is
\* shown again, the display emptied and the graph data cleared
clearAll ==
    /\ pc \in {"idle", "done", "fatal"}
    /\ inputDiv' = toggleDisassemblyInput(TRUE)
    /\ loc' = [loc EXCEPT !.displayDiv = <<>>]
    /\ liveDagData' = <<>>
    /\ UNCHANGED <<binary, pc, error, instructionMap, resultToInstructionMap, idConsumers,
                   opNameMap, debugStringMap, constantValues, ResultToExtImport,
                   assembleCall, grammar, seenDagNodesSet, dagCall, tests>>

-----------------------------------------------------------------------------
(* The buffers handed to the decoder *)

MaxFragments == 2

IdBound == 20

Id(n) == <<0, n>>

First(len, opcode) == <<len, opcode>>

\* "GLSL.std.450" packed four bytes a word, zero terminated
GlslStd450Words ==
    <<Pack(71, 76, 83, 76), Pack(46, 115, 116, 100), Pack(46, 52, 53, 48), Pack(0, 0, 0, 0)>>

Fragments ==
    << \* OpNoLine; %1 = OpDecorationGroup; %2 = OpTypeVoid
       <<First(1, Op.OpNoLine), First(2, Op.OpDecorationGroup), Id(1),
         First(2, Op.OpTypeVoid), Id(2)>>,
       \* an opcode without a grammar record, one word long
       <<First(1, 65535)>>,
       \* OpNop with a length field of zero
       <<First(0, Op.OpNop)>>,
       \* %2 = OpTypeVoid
       <<First(2, Op.OpTypeVoid), Id(2)>>,
       \* OpDecorate %2 Block; %3 = OpConstantTrue %2
       <<First(3, Op.OpDecorate), Id(2), Word(2), First(3, Op.OpConstantTrue), Id(2), Id(3)>>,
       \* OpSelectionMerge %5 None
       <<First(3, Op.OpSelectionMerge), Id(5), Word(0)>>,
       \* %1 = OpExtInstImport "GLSL.std.450"
       <<First(6, Op.OpExtInstImport), Id(1)>> \o GlslStd450Words,
       \* %1 = OpExtInstImport "abc"; %3 = OpExtInst %2 %1 99
       <<First(3, Op.OpExtInstImport), Id(1), Pack(97, 98, 99, 0),
         First(5, Op.OpExtInst), Id(2), Id(3), Id(1), Word(99)>>,
       \* %3 = OpVariable %2 <storage class 13>, without initializer
       <<First(4, Op.OpVariable), Id(2), Id(3), Word(13)>>,
       \* OpFunctionEnd
       <<First(1, Op.OpFunctionEnd)>> >>

RECURSIVE Streams(_)
Streams(n) ==
    IF n = 0 THEN {<<>>}
    ELSE Streams(n - 1) \cup
         {s \o Fragments[k] : s \in Streams(n - 1), k \in 1..Len(Fragments)}

Header(magic, version, idBound, schema) == <<magic, version, Word(0), Word(idBound), schema>>

ValidHeader == Header(MagicNumber, Version, IdBound, Word(0))

Headers ==
    {Header(magic, version, idBound, schema) :
        magic \in {MagicNumber, <<1795, 516>>},
        version \in {<<1, 0>>, Version, <<1, 1792>>},
        idBound \in {1, 4},
        schema \in {Word(0), Word(1)}}

\* every cut of a word sequence, whole words plus 0..3 bytes of the next
Cuts(words) == {Buffer(SubSeq(words, 1, n), e) : n \in 0..Len(words), e \in 0..3}

Binaries ==
    {Buffer(ValidHeader \o s, 0) : s \in Streams(MaxFragments)}
    \cup {Buffer(h \o s, 0) : h \in Headers, s \in {<<>>, Fragments[4]}}
    \cup Cuts(ValidHeader \o Fragments[4])
    \cup Cuts(Header(<<1795, 516>>, Version, IdBound, Word(1)))

-----------------------------------------------------------------------------
(* The page around the decoder: the grammar files that loadSpirv requests,  *)
(* the graph data of the last click, and the globals of the test harness.   *)

\* spirv.js:137-233: the files of the nine $.getJSON calls
GrammarFiles ==
    {"spirv.json", "spirv.core.grammar.json", "extinst.glsl.std.450.grammar.json",
     "extinst.opencl.std.100.grammar.json", "extinst.nonsemantic.debugprintf.grammar.json",
     "extinst.nonsemantic.clspvreflection.grammar.json",
     "extinst.nonsemantic.shader.debuginfo.100.grammar.json",
     "extinst.debuginfo.grammar.json", "extinst.opencl.debuginfo.100.grammar.json"}

\* spirv.js:63
jsonRefTotal == 9

\* spirv.js:18, 62: the page as loadSpirv leaves it, no callback run yet
GrammarRequested == [jsonRefCount |-> 0, JsonIsReady |-> FALSE, loaded |-> {}]

\* every callback has run
GrammarLoaded == [jsonRefCount |-> jsonRefTotal, JsonIsReady |-> TRUE, loaded |-> GrammarFiles]

\* no click on the display yet
NoClick == [handler |-> "", instruction |-> NoIndex, expanded |-> <<>>, calls |-> 0,
            err |-> "", drawn |-> FALSE, dagData |-> <<>>]

\* tests.js:20-26, and what the harness has requested and decoded so far;
\* phase "off" is a page whose TEST_SUITE is false
TestsOff == [phase |-> "off", fileList |-> <<>>, blobs |-> <<>>, maxShaders |-> 0,
             currentShaders |-> 0, totalShaders |-> 0, pending |-> {}, next |-> 0,
             requests |-> <<>>, parsed |-> <<>>, tested |-> 0]

Init ==
    /\ grammar = GrammarLoaded
    /\ liveDagData = <<>>
    /\ seenDagNodesSet = {}
    /\ dagCall = NoClick
    /\ tests = TestsOff
    /\ binary = Buffer(<<>>, 0)
    /\ pc = "idle"
    /\ error = ""
    /\ instructionMap = EmptyMap
    /\ resultToInstructionMap = EmptyMap
    /\ idConsumers = <<>>
    /\ opNameMap = EmptyMap
    /\ debugStringMap = EmptyMap
    /\ constantValues = EmptyMap
    /\ ResultToExtImport = EmptyMap
    /\ loc = InitLoc
    /\ inputDiv = [display |-> "inline-block", value |-> <<>>]
    /\ assembleCall = NoCall

Next ==
    \/ \E b \in Binaries : fileSelected(b)
    \/ Pass1Step
    \/ Pass1End
    \/ Pass2Step
    \/ Pass2End

Spec == Init /\ [][Next]_vars

-----------------------------------------------------------------------------
(* parseBinaryStream run in one piece on a buffer, in a process that has    *)
(* decoded nothing before (spirv.ResultToExtImport as spirv.js:37 makes it) *)

\* while (i < module.length) of main.js:109, for at most fuel turns
RECURSIVE Pass1Loop(_, _)
Pass1Loop(st, fuel) ==
    IF st.err # "" \/ ~(st.i < Len(st.module)) \/ fuel = 0 THEN st
    ELSE Pass1Loop(Pass1Instruction(st), fuel - 1)

\* main.js:665-667
StartPass2(st) == IF st.err # "" THEN st ELSE [st EXCEPT !.i = 5, !.instructionCount = 0]

\* while (i < module.length) of main.js:668, for at most fuel turns
RECURSIVE Pass2Loop(_, _)
Pass2Loop(st, fuel) ==
    IF st.err # "" \/ ~(st.i < Len(st.module)) \/ fuel = 0 THEN st
    ELSE Pass2Loop(Pass2Instruction(st), fuel - 1)

\* main.js:46-107 in a fresh process
FreshState(b) ==
    InitLoc @@ [module |-> b.words, err |-> HeaderError(b),
                instructionMap |-> EmptyMap, resultToInstructionMap |-> EmptyMap,
                idConsumers |-> IF HeaderError(b) # "" THEN <<>>
                                ELSE [k \in 1..WordValue(b.words[4]) |-> <<>>],
                opNameMap |-> EmptyMap, debugStringMap |-> EmptyMap,
                constantValues |-> EmptyMap, ResultToExtImport |-> EmptyMap]

\* what a caller sees of a run: the exception, if any, and the tables
Outcome(err, im, rm, idc, names, debug, constants) ==
    [error |-> err, instructionMap |-> im, resultToInstructionMap |-> rm,
     idConsumers |-> idc, opNameMap |-> names, debugStringMap |-> debug,
     constantValues |-> constants]

OutcomeOf(st) ==
    Outcome(st.err, st.instructionMap, st.resultToInstructionMap, st.idConsumers,
            st.opNameMap, st.debugStringMap, st.constantValues)

FreshRun(b) ==
    OutcomeOf(Pass2Loop(StartPass2(Pass1Loop(FreshState(b), Len(b.words) + 1)),
                        Len(b.words) + 1))

-----------------------------------------------------------------------------
(* The texts typed into the text box *)

\* '%' + n, a token list joined by single spaces, lines joined by line feeds
Name(n) == IdText(Word(n))

Line(tokens) == Join(tokens, <<32>>)

Lines(lines) == Join(lines, <<10>>)

Quoted(str) == <<34>> \o str \o <<34>>

Result(n, opname) == <<Name(n), <<61>>, Spelling[opname]>>

\* the instruction element's text after the count (main.js:235): what
\* follows '[n]' and the em space
InstructionText(instructionString) ==
    SubSeq(instructionString, IndexOf(instructionString, EmSpace) + 2, Len(instructionString))

\* what the display shows for a stream decoded in a fresh process, one
\* instruction a line
\* the instruction elements of the display as lines of text
ShownText(shown) == Lines([k \in 1..Len(shown) |-> InstructionText(shown[k])])

DisplayText(b) == ShownText(Pass1Loop(FreshState(b), Len(b.words) + 1).displayDiv)

\* a stream as assemble lays one out: version 1.0, generator 0, and the ids
\* 1, 2, ... in the order of their first mention, the bound one above them
Module(idsBound, instructions) ==
    Buffer(Header(MagicNumber, SPV_ENV_UNIVERSAL_1_0, idsBound, Word(0)) \o instructions, 0)

RoundTripStreams ==
    { \* %1 = OpTypeVoid
      Module(2, <<First(2, Op.OpTypeVoid), Id(1)>>),
      \* %1 = OpTypeInt 32 0; %2 = OpConstant %1 7; OpDecorate %2 Block
      Module(3, <<First(4, Op.OpTypeInt), Id(1), Word(32), Word(0),
                  First(4, Op.OpConstant), Id(1), Id(2), Word(7),
                  First(3, Op.OpDecorate), Id(2), Word(2)>>),
      \* %1 = OpTypeInt 64 1; %2 = OpConstant %1 -2
      Module(3, <<First(4, Op.OpTypeInt), Id(1), Word(64), Word(1),
                  First(5, Op.OpConstant), Id(1), Id(2), <<Half - 1, Half - 2>>, AllOnes>>),
      \* OpName %1 "abc"; %1 = OpTypeVoid
      Module(2, <<First(3, Op.OpName), Id(1), Pack(97, 98, 99, 0),
                  First(2, Op.OpTypeVoid), Id(1)>>),
      \* OpModuleProcessed "abc"
      Module(1, <<First(2, Op.OpModuleProcessed), Pack(97, 98, 99, 0)>>),
      \* %1 = OpTypeVoid; %2 = OpFunction %1 DontInline|Pure %3; OpFunctionEnd
      Module(4, <<First(2, Op.OpTypeVoid), Id(1),
                  First(5, Op.OpFunction), Id(1), Id(2), Word(6), Id(3),
                  First(1, Op.OpFunctionEnd)>>),
      \* %1 = OpTypeVoid; %2 = OpFunction %1 Inline %3; OpFunctionEnd
      Module(4, <<First(2, Op.OpTypeVoid), Id(1),
                  First(5, Op.OpFunction), Id(1), Id(2), Word(1), Id(3),
                  First(1, Op.OpFunctionEnd)>>) }

\* an operation name that is in no grammar: OpBogus
OpBogus == <<79, 112, 66, 111, 103, 117, 115>>

AssemblyTexts ==
    { Line(Result(1, "OpTypeVoid")),
      Lines(<<Line(Result(1, "OpTypeInt") \o <<<<54, 52>>, <<49>>>>),
              Line(Result(2, "OpConstant") \o <<Name(1), <<45, 50>>>>)>>),
      Lines(<<Line(Result(1, "OpTypeFloat") \o <<<<51, 50>>>>),
              Line(Result(2, "OpConstant") \o <<Name(1), <<51, 46, 48>>>>)>>),
      Lines(<<Line(Result(1, "OpTypeInt") \o <<<<51, 50>>, <<48>>>>),
              Line(Result(2, "OpConstant") \o <<Name(1), <<55>>>>),
              Line(Result(3, "OpIAdd") \o <<Name(1), Name(2), Name(2)>>)>>),
      \* a literal string of one word and of two, and one with a space
      Line(<<Spelling["OpModuleProcessed"], Quoted(<<97, 98, 99>>)>>),
      Line(<<Spelling["OpModuleProcessed"], Quoted(<<97, 98, 99, 100>>)>>),
      Line(<<Spelling["OpModuleProcessed"], Quoted(<<97, 32, 98>>)>>),
      \* an empty line, a comment, a line of spaces, an instruction
      Lines(<<<<>>, <<59, 32, 99>>, <<32, 32>>, Line(Result(1, "OpTypeVoid"))>>),
      \* a comment without a space after ';'
      Lines(<<<<59, 99>>, Line(Result(1, "OpTypeVoid"))>>),
      \* tokens separated by two spaces, and by a tab
      Join(<<Spelling["OpDecorate"], Name(1), Spelling["Block"]>>, <<32, 32>>),
      Join(<<Spelling["OpDecorate"], Name(1), Spelling["Block"]>>, <<9>>),
      \* a name mentioned before the line that defines it
      Lines(<<Line(<<Spelling["OpDecorate"], Name(1), Spelling["Location"], <<55>>>>),
              Line(Result(1, "OpTypeVoid"))>>),
      \* a label first mentioned as the target of a case
      Lines(<<Line(<<Spelling["OpSwitch"], Name(1), Name(2), <<55>>, Name(3)>>),
              Line(Result(2, "OpLabel")), Line(Result(3, "OpLabel"))>>),
      \* a result type that no line defines
      Line(Result(2, "OpConstantTrue") \o <<Name(1)>>),
      \* flags joined by '|'
      Lines(<<Line(Result(1, "OpTypeVoid")),
              Line(Result(2, "OpFunction")
                   \o <<Name(1), Spelling["DontInline"] \o <<124>> \o Spelling["Pure"], Name(3)>>)>>),
      \* an extended instruction by name
      Lines(<<Line(Result(1, "OpExtInstImport") \o <<Quoted(NameGlslStd450)>>),
              Line(Result(2, "OpTypeFloat") \o <<<<51, 50>>>>),
              Line(Result(3, "OpConstant") \o <<Name(2), <<51, 46, 48>>>>),
              Line(Result(4, "OpExtInst") \o <<Name(2), Name(1), Spelling["Round"], Name(3)>>)>>),
      \* an operation that is in no grammar
      Line(<<OpBogus, Name(1)>>),
      \* OpBranch without its target, with it, and with a token too many
      Line(<<Spelling["OpBranch"]>>),
      Line(<<Spelling["OpBranch"], Name(1)>>),
      Line(<<Spelling["OpBranch"], Name(1), Name(2)>>) }
    \cup {DisplayText(b) : b \in RoundTripStreams}

NextAssemble ==
    \/ \E text \in AssemblyTexts : TypeText(text)
    \/ KeypressEnter
    \/ clearAll
    \/ Pass1Step
    \/ Pass1End
    \/ Pass2Step
    \/ Pass2End

SpecAssemble == Init /\ [][NextAssemble]_vars

-----------------------------------------------------------------------------
(* The claims *)

HeaderMessages ==
    {"assert: Magic Number doesn't match",
     "assert: SPIR-V Headers are older than version of module",
     "assert: Only support schema 0 currently"}

SizeMessages ==
    {"assert: File is not 4 byte (32 bit) aligned", "assert: module less than 5 dwords"}

\* a run has ended in an exception before the first pass began
RejectedAtStart ==
    /\ pc = "fatal"
    /\ instructionMap = EmptyMap
    /\ idConsumers = <<>>
    /\ loc = InitLoc

\* C1: a buffer of whole words, five or more, whose word 0 is not the magic
\* number, or whose word 1 is greater than the supported version, or whose
\* word 4 is not zero, is rejected with a header message before any
\* instruction word is read and before any instruction record exists; a
\* header that meets the three conditions raises no header message.
C1_HeaderValidation ==
    (pc # "idle" /\ ByteLength(binary) % 4 = 0 /\ Len(binary.words) >= 5) =>
        IF \/ binary.words[1] # MagicNumber
           \/ WordLess(Version, binary.words[2])
           \/ binary.words[5] # Word(0)
        THEN RejectedAtStart /\ error \in HeaderMessages
        ELSE error \notin HeaderMessages

C1_Witness ==
    /\ pc = "fatal"
    /\ Len(binary.words) >= 5
    /\ binary.words[1] = MagicNumber
    /\ WordLess(Version, binary.words[2])
    /\ error = "assert: SPIR-V Headers are older than version of module"

\* C2: a buffer whose byte length is not a multiple of 4, or that holds
\* fewer than 5 words, is rejected with the message of the size checks and
\* never with a message of validateHeader, whatever its header words are.
C2_SizeRejectedFirst ==
    (pc # "idle" /\ (ByteLength(binary) % 4 # 0 \/ Len(binary.words) < 5)) =>
        RejectedAtStart /\ error \in SizeMessages

C2_Witness ==
    /\ pc = "fatal"
    /\ ByteLength(binary) % 4 = 0
    /\ Len(binary.words) \in 1..4
    /\ binary.words[1] # MagicNumber
    /\ error = "assert: module less than 5 dwords"

\* C3: neither walk runs forever: every turn of the first pass loop and of
\* the second pass loop that does not end the decode moves the cursor
\* towards the end of the stream.
C3_CursorAdvances ==
    [][(pc \in {"pass1", "pass2"} /\ pc' = pc) => loc'.i > loc.i]_vars

\* C4: a turn of the first pass on an instruction word whose opcode has no
\* record in spirv.Instructions ends the decode with a fatal error.
C4_UnknownOpcodeFatal ==
    [][(/\ pc = "pass1"
        /\ loc.i >= 0 /\ loc.i < Len(binary.words)
        /\ InstructionOpcode(ModuleAt(binary.words, loc.i)) \notin DOMAIN Instructions)
       => pc' = "fatal"]_vars

\* the indices of the instruction records whose result is id
Producers(id) == {J \in DOMAIN instructionMap : instructionMap[J].result = id}

\* the records that have a result id
WithResult == {I \in DOMAIN instructionMap : instructionMap[I].result # Undefined}

\* C5 as the claim states it: after a decode that completes, every
\* instruction record with a result id R is the one resultToInstructionMap
\* holds for R, and no other record has R as its result.
C5_ResultMapInjective ==
    pc = "done" =>
        \A I \in WithResult :
            /\ MapGetIndex(resultToInstructionMap, instructionMap[I].result) = I
            /\ Producers(instructionMap[I].result) = {I}

\* C5: after a decode that completes, resultToInstructionMap holds for every
\* result id R the index of the last instruction record whose result is R:
\* a record is its own entry exactly when no later record has the same result.
C5_ResultMapLastProducer ==
    pc = "done" =>
        \A I \in WithResult :
            /\ MapGetIndex(resultToInstructionMap, instructionMap[I].result)
                   \in Producers(instructionMap[I].result)
            /\ \A J \in Producers(instructionMap[I].result) :
                   J <= MapGetIndex(resultToInstructionMap, instructionMap[I].result)

C5_Witness ==
    /\ pc = "done"
    /\ \E I \in WithResult : \E J \in Producers(instructionMap[I].result) : J > I

\* how many times x occurs in the sequence
Occurrences(x, seq) == Cardinality({k \in 1..Len(seq) : seq[k] = x})

MissingProducerMessages ==
    {"TypeError: instructionMap.get(undefined) is undefined",
     "TypeError: contextInstruction is undefined"}

\* C7: after the second pass every parentInstructions list is as long as
\* the operandIdList, its k-th entry is the index of an instruction whose
\* result is the k-th operand id when the stream has one and undefined when
\* it has none; and no decode fails because an id has no producer.
C7_ParentsResolved ==
    /\ pc = "done" =>
           \A I \in DOMAIN instructionMap :
               /\ Len(instructionMap[I].parentInstructions) = Len(instructionMap[I].operandIdList)
               /\ \A k \in 1..Len(instructionMap[I].operandIdList) :
                      IF Producers(instructionMap[I].operandIdList[k]) # {}
                      THEN instructionMap[I].parentInstructions[k]
                               \in Producers(instructionMap[I].operandIdList[k])
                      ELSE instructionMap[I].parentInstructions[k] = NoIndex
    /\ error \notin MissingProducerMessages

\* C8: when a run has ended, what it raised and the tables it left are what
\* the same buffer gives in a process that has decoded nothing before.
C8_RunIndependent ==
    pc \in {"done", "fatal"} =>
        Outcome(error, instructionMap, resultToInstructionMap, idConsumers, opNameMap,
                debugStringMap, constantValues) = FreshRun(binary)

\* C9: when the decode has aborted with a fatal error, the tables hold no
\* record of the aborted stream.
C9_NoPartialTables ==
    pc = "fatal" =>
        /\ instructionMap = EmptyMap
        /\ resultToInstructionMap = EmptyMap
        /\ \A X \in 1..Len(idConsumers) : idConsumers[X] = <<>>
        /\ opNameMap = EmptyMap
        /\ debugStringMap = EmptyMap
        /\ constantValues = EmptyMap

\* C10: an operand word that matches no enumerant of its kind (foundValue
\* is left false by main.js:546-578) ends the decode with a fatal error.
C10_UnmatchedEnumerantFatal ==
    loc.foundValue = "false" => pc = "fatal"

-----------------------------------------------------------------------------
(* Decoding single instructions whose words are drawn from bounded sets.    *)
(*                                                                         *)
(* Literal strings: streams of one OpModuleProcessed; debugStringMap keeps  *)
(* what getLiteralString returned for its words (main.js:370-375)           *)

MaxStringWords == 2

\* string words, bytes in memory order: full, terminated at each place, and
\* with bytes that follow a terminator
StringWordSet ==
    {Pack(97, 98, 99, 100), Pack(97, 98, 99, 0), Pack(97, 98, 0, 0), Pack(0, 0, 0, 0),
     Pack(97, 0, 99, 0), Pack(0, 98, 99, 100)}

RECURSIVE WordSeqs(_, _)
WordSeqs(S, n) ==
    IF n = 0 THEN {<<>>}
    ELSE WordSeqs(S, n - 1) \cup {<<w>> \o s : w \in S, s \in WordSeqs(S, n - 1) }

StringBinaries ==
    {Buffer(ValidHeader \o <<First(1 + Len(s), Op.OpModuleProcessed)>> \o s, 0) :
        s \in WordSeqs(StringWordSet, MaxStringWords)}

\* the bytes of a word sequence in memory order: low byte first, words in order
RECURSIVE FlatBytes(_)
FlatBytes(words) ==
    IF words = <<>> THEN <<>> ELSE WordBytes(words[1]) \o FlatBytes(Tail(words))

\* the bytes that precede the first zero byte
RECURSIVE BytesBeforeZero(_)
BytesBeforeZero(bytes) ==
    IF bytes = <<>> \/ bytes[1] = 0 THEN <<>>
    ELSE <<bytes[1]>> \o BytesBeforeZero(Tail(bytes))

\* the words after the first word of the instruction with number I
OperandWords(I) ==
    LET o == instructionMap[I].moduleOffset
    IN  Slice(binary.words, o + 1, o + InstructionLength(ModuleAt(binary.words, o)))

\* C11: the string kept for an instruction is exactly the bytes of its operand
\* words that precede the first zero byte, low byte first within each word and
\* words in order; no byte after the first zero byte contributes.
C11_StringStopsAtFirstZero ==
    \A I \in DOMAIN debugStringMap \cap DOMAIN instructionMap :
        debugStringMap[I] = BytesBeforeZero(FlatBytes(OperandWords(I)))

-----------------------------------------------------------------------------
(* First words: every length field at the edges of the 16-bit range, with   *)
(* an opcode that has no operands and one that has none in the grammar      *)

LengthFields == {0, 1, 2, Half \div 2 - 1, Half \div 2, Half - 1}

LengthBinaries ==
    {Buffer(ValidHeader \o <<First(len, opcode)>> \o rest, 0) :
        len \in LengthFields, opcode \in {Op.OpNop, Op.OpNoLine, Op.OpFunctionEnd},
        rest \in {<<>>, <<First(1, Op.OpNop)>>}}

\* C12: a turn of either pass on the instruction word w at offset i takes
\* floor(w / 2^16) for the length and w mod 2^16 for the opcode, and leaves
\* the cursor at i + length.
C12_LengthAndOpcodeUnpacked ==
    [][(/\ pc \in {"pass1", "pass2"}
        /\ pc' = pc
        /\ loc.i \in 0..(Len(binary.words) - 1))
       => /\ loc'.i = loc.i + binary.words[loc.i + 1][1]
          /\ pc = "pass1" =>
                instructionMap'[loc.instructionCount].opcode = binary.words[loc.i + 1][2]]_vars

-----------------------------------------------------------------------------
(* Numeric constants: a type declaration followed by a constant that names  *)
(* it, with the literal words at the edges of the 32-bit range              *)

ConstantTypes ==
    {<<First(4, Op.OpTypeInt), Id(1), Word(width), Word(signedness)>> :
        width \in {16, 32, 64}, signedness \in {0, 1}}
    \cup {<<First(3, Op.OpTypeFloat), Id(1), Word(width)>> : width \in {16, 32, 64}}

LiteralWords == {Word(0), Word(1), <<Half \div 2, 0>>, AllOnes}

ConstantLiterals ==
    {<<low>> : low \in LiteralWords}
    \cup {<<low, high>> : low \in LiteralWords, high \in LiteralWords}
    \cup {<<low, high, Word(0)>> : low \in {Word(1)}, high \in LiteralWords}

ConstantBinaries ==
    {Buffer(ValidHeader \o type \o <<First(3 + Len(literal), opcode), Id(1), Id(2)>> \o literal, 0) :
        type \in ConstantTypes, opcode \in {Op.OpConstant, Op.OpSpecConstant},
        literal \in ConstantLiterals}

\* the instructions that are an OpConstant or an OpSpecConstant with a value
DecodedConstants ==
    {I \in DOMAIN instructionMap :
        /\ instructionMap[I].opcode \in {Op.OpConstant, Op.OpSpecConstant}
        /\ instructionMap[I].result \in DOMAIN constantValues}

\* the instruction that declares the result type of instruction I
TypeDeclaration(I) ==
    instructionMap[MapGetIndex(resultToInstructionMap, instructionMap[I].resultType)]

\* word k of instruction I
InstructionWord(I, k) == ModuleAt(binary.words, instructionMap[I].moduleOffset + k)

\* high * 2^32 + low in two's complement, high read as signed or as unsigned
SignedHighTimes2To32PlusLow(highWord, lowWord) ==
    [tag |-> "int", sign |-> IF TopBit(highWord) THEN -1 ELSE 0, high |-> highWord, low |-> lowWord]

UnsignedHighTimes2To32PlusLow(highWord, lowWord) ==
    [tag |-> "int", sign |-> 0, high |-> highWord, low |-> lowWord]

\* C13: a 5-word OpConstant or OpSpecConstant whose result type is an OpTypeInt
\* decodes to high * 2^32 + low, low being word 3 read as unsigned and high
\* word 4 read as two's complement when the type's signedness word is 1 and as
\* unsigned otherwise.
C13_Int64FromTwoWords ==
    \A I \in DecodedConstants :
        (/\ InstructionLength(InstructionWord(I, 0)) = 5
         /\ TypeDeclaration(I).opcode = Op.OpTypeInt)
        => constantValues[instructionMap[I].result].value =
              IF ModuleAt(binary.words, TypeDeclaration(I).moduleOffset + 3) = Word(1)
              THEN SignedHighTimes2To32PlusLow(InstructionWord(I, 4), InstructionWord(I, 3))
              ELSE UnsignedHighTimes2To32PlusLow(InstructionWord(I, 4), InstructionWord(I, 3))

\* low 0xFFFFFFFF and high 0 under a signed 64-bit type have decoded to 4294967295
C13_Witness ==
    \E I \in DecodedConstants :
        /\ InstructionLength(InstructionWord(I, 0)) = 5
        /\ TypeDeclaration(I).opcode = Op.OpTypeInt
        /\ ModuleAt(binary.words, TypeDeclaration(I).moduleOffset + 2) = Word(64)
        /\ ModuleAt(binary.words, TypeDeclaration(I).moduleOffset + 3) = Word(1)
        /\ InstructionWord(I, 3) = AllOnes
        /\ InstructionWord(I, 4) = Word(0)
        /\ constantValues[instructionMap[I].result].value = Uint32(AllOnes)

\* C15: only a constant whose result type declares a width of 32 or 64 bits
\* decodes to a value; under any other declared width the decode is fatal.
C15_WidthOtherThan32Or64Fatal ==
    \A I \in DecodedConstants :
        TypeDeclaration(I).opcode \in {Op.OpTypeInt, Op.OpTypeFloat}
        => ModuleAt(binary.words, TypeDeclaration(I).moduleOffset + 2) \in {Word(32), Word(64)}

-----------------------------------------------------------------------------
(* Bit-style enumerants: OpSelectionMerge and OpFunction with every control *)
(* word of a few low bits, and some with the top bit                        *)

ControlWords == {Word(n) : n \in 0..31} \cup {<<Half \div 2, n>> : n \in 0..3}

BitEnumBinaries ==
    {Buffer(ValidHeader \o <<First(3, Op.OpSelectionMerge), Id(1), w>>, 0) : w \in ControlWords}
    \cup {Buffer(ValidHeader \o <<First(5, Op.OpFunction), Id(1), Id(2), w, Id(3)>>, 0) :
             w \in ControlWords}

\* the catalogued flag is in the word: its bit is set, or flag and word are zero
FlagSet(value, w) ==
    IF value = Word(0) THEN w = Word(0) ELSE WordAnd(value, w) = value

\* the names of the flags of a kind that are in the word, from the k-th
\* catalogue entry on, joined by " | "
RECURSIVE FlagsFrom(_, _, _)
FlagsFrom(kind, w, k) ==
    IF k > Len(Operands[kind].enumerants) THEN <<>>
    ELSE LET rest == FlagsFrom(kind, w, k + 1)
             e == Operands[kind].enumerants[k]
         IN  IF ~FlagSet(ParseHex(e.value, Word(0)), w) THEN rest
             ELSE IF rest = <<>> THEN <<e.enumerant>>
             ELSE <<e.enumerant, " | ">> \o rest

\* the instruction decoded last is a one of opcode with its control word at k
LastDecoded(opcode, k, w) ==
    /\ pc = "pass1"
    /\ (loc.instructionCount - 1) \in DOMAIN instructionMap
    /\ instructionMap[loc.instructionCount - 1].opcode = opcode
    /\ InstructionWord(loc.instructionCount - 1, k) = w

\* C14: the flags shown for a bit-style enumerant word are every catalogued
\* flag whose bit is set in the word (or whose value is zero when the word is
\* zero) and no other, joined by " | " in the order the catalogue declares them.
C14_BitEnumFlagsInCatalogueOrder ==
    \A w \in ControlWords :
        /\ LastDecoded(Op.OpSelectionMerge, 2, w)
              => loc.bitEnumString = FlagsFrom("SelectionControl", w, 1)
        /\ LastDecoded(Op.OpFunction, 3, w)
              => loc.bitEnumString = FlagsFrom("FunctionControl", w, 1)

\* the function control word 0x6 has been shown as "DontInline | Pure"
C14_Witness ==
    /\ LastDecoded(Op.OpFunction, 3, Word(6))
    /\ loc.bitEnumString = <<"DontInline", " | ", "Pure">>

-----------------------------------------------------------------------------

(* Extended instructions: an import, then an OpExtInst of that set with the *)
(* operand words its grammar record declares                                *)

\* "DebugInfo" packed four bytes a word, zero terminated
DebugInfoWords == <<Pack(68, 101, 98, 117), Pack(103, 73, 110, 102), Pack(111, 0, 0, 0)>>

\* %2 = OpTypeVoid; %1 = OpExtInstImport name; %3 = OpExtInst %2 %1 number rest
ExtInstStream(nameWords, number, rest) ==
    ValidHeader \o <<First(2, Op.OpTypeVoid), Id(2)>>
    \o <<First(2 + Len(nameWords), Op.OpExtInstImport), Id(1)>> \o nameWords
    \o <<First(5 + Len(rest), Op.OpExtInst), Id(2), Id(3), Id(1), Word(number)>> \o rest

ExtInstBinaries ==
    {Buffer(ExtInstStream(GlslStd450Words, n, <<x>>), 0) : n \in {1, 2}, x \in {Id(2), Id(3)}}
    \cup {Buffer(ExtInstStream(DebugInfoWords, 0, <<>>), 0)}
    \cup {Buffer(ExtInstStream(DebugInfoWords, 1, <<Word(v), Word(d)>>), 0) :
              v \in {2, 100}, d \in {4, 5}}

\* the descriptor of the k-th operand of an extended instruction: past the
\* last one, the last one again if it is an array
ExtDescriptor(operands, k) ==
    IF k <= Len(operands) THEN operands[k]
    ELSE IF operands # <<>> /\ operands[Len(operands)].quantifier = "*" THEN operands[Len(operands)]
    ELSE Desc("", "", "")

\* the words among those after the extended instruction number whose
\* descriptor in the grammar of the set is an id
ExtOperandIds(operands, words) ==
    SelectSeq([k \in 1..Len(words) |-> IF ExtDescriptor(operands, k).kind = "IdRef"
                                       THEN words[k] ELSE Undefined],
              LAMBDA w : w # Undefined)

\* the record I is an OpExtInst whose set is a loaded catalogue that has its
\* extended instruction, with as many operand words as that one declares
ExtInstOfLoadedSet(I) ==
    /\ instructionMap[I].opcode = Op.OpExtInst
    /\ Len(OperandWords(I)) >= 4
    /\ HasExtInstructions(ResultToExtImport, OperandWords(I)[3])
    /\ SmallKey(OperandWords(I)[4]) \in DOMAIN getExtInstructions(ResultToExtImport, OperandWords(I)[3])
    /\ \A k \in 1..(Len(OperandWords(I)) - 4) :
           ExtDescriptor(ExtInstructionOperands[ResultToExtImport[OperandWords(I)[3]]]
                             [SmallKey(OperandWords(I)[4])], k).kind # ""

\* C23: the record of an OpExtInst whose set is a loaded catalogue holds in
\* operandIdList the result type, the set id and then exactly the operand words that the
\* grammar record of the extended instruction declares as ids; a word it
\* declares as a literal or an enumerant is in no operandIdList and has
\* this instruction in no idConsumers entry.
C23_ExtendedOperandsUnderExtendedGrammar ==
    \A I \in DOMAIN instructionMap :
        ExtInstOfLoadedSet(I) =>
            /\ instructionMap[I].operandIdList =
                   <<OperandWords(I)[1], OperandWords(I)[3]>>
                   \o ExtOperandIds(ExtInstructionOperands[ResultToExtImport[OperandWords(I)[3]]]
                                        [SmallKey(OperandWords(I)[4])],
                                    SubSeq(OperandWords(I), 5, Len(OperandWords(I))))
            /\ \A X \in 1..Len(idConsumers) :
                   Occurrences(I, idConsumers[X])
                       = Occurrences(Word(X - 1), instructionMap[I].operandIdList)

-----------------------------------------------------------------------------

\* the seven set names setResultToExtImportMap looks for, each with the
\* ExtInstType of the grammar file of that set (spirv.js:97-124, 202-250)
SupportedSets ==
    {<<NameGlslStd450, ExtInstType.GlslStd450>>,
     <<NameOpenCLStd, ExtInstType.OpenCLStd>>,
     <<NameNonSemanticDebugPrintf, ExtInstType.NonSemanitcDebugPrintf>>,
     <<NameNonSemanticClspvReflection, ExtInstType.NonSemanitcClspvReflection>>,
     <<NameNonSemanticShaderDebugInfo, ExtInstType.NonSemanitcDebugInfo>>,
     <<NameDebugInfo, ExtInstType.DebugInfo>>,
     <<NameOpenCLDebugInfo100, ExtInstType.OpenCLDebug100>>}

SupportedNames == {s[1] : s \in SupportedSets}

\* "SPV_x", a set name of no grammar file
NameUnsupported == <<83, 80, 86, 95, 120>>

ImportIds == {Id(1), Id(2)}

\* %id = OpExtInstImport name, the name zero terminated
ImportBinaries ==
    {Buffer(ValidHeader
            \o <<First(2 + Len(EncodeString(name \o <<0>>, 0)), Op.OpExtInstImport), id>>
            \o EncodeString(name \o <<0>>, 0), 0) :
        name \in SupportedNames \cup {NameUnsupported}, id \in ImportIds}

ExtendedBinaries == ExtInstBinaries \cup ImportBinaries

NextExtended ==
    \/ \E b \in ExtendedBinaries : fileSelected(b)
    \/ Pass1Step
    \/ Pass1End
    \/ Pass2Step
    \/ Pass2End

SpecExtended == Init /\ [][NextExtended]_vars

-----------------------------------------------------------------------------

InstanceBinaries ==
    StringBinaries \cup LengthBinaries \cup ConstantBinaries \cup BitEnumBinaries

NextInstances ==
    \/ \E b \in InstanceBinaries : fileSelected(b)
    \/ Pass1Step
    \/ Pass1End
    \/ Pass2Step
    \/ Pass2End

SpecInstances == Init /\ [][NextInstances]_vars

-----------------------------------------------------------------------------
(* Assembling what the text box holds *)

\* C16: for every valid stream, laid out with the header and the ids
\* assemble would give it, assembling the text the decoder displays for it
\* succeeds and returns the words of the stream, so that decoding the result
\* decodes the same word sequence again.
C16_RoundTrip ==
    \A b \in RoundTripStreams :
        assembleCall.spirvText = DisplayText(b)
            => assembleCall.err = "" /\ assembleCall.words = b.words


\* the tokens of all lines of a text, in reading order
RECURSIVE AllTokens(_)
AllTokens(lines) ==
    IF lines = <<>> THEN <<>> ELSE LineTokens(lines[1]) \o AllTokens(Tail(lines))

IsName(token) == token # <<>> /\ token[1] = 37

\* the names among the tokens, each once, in the order of first mention
RECURSIVE FirstMentions(_, _)
FirstMentions(tokens, seen) ==
    IF tokens = <<>> THEN seen
    ELSE IF IsName(tokens[1]) /\ \A k \in 1..Len(seen) : seen[k] # tokens[1]
    THEN FirstMentions(Tail(tokens), Append(seen, tokens[1]))
    ELSE FirstMentions(Tail(tokens), seen)

NamesOf(text) == FirstMentions(AllTokens(Split(text, 10)), <<>>)

\* the ids 1, 2, 3, ... for the names in the order of first mention
SequentialIds(names) ==
    [name \in {names[k] : k \in 1..Len(names)} |->
        Word(CHOOSE k \in 1..Len(names) : names[k] = name)]

\* the ids the decoder reads out of a word sequence: every result, result
\* type and id operand of its instruction records
IdsRead(words) ==
    LET im == FreshRun(Buffer(words, 0)).instructionMap
    IN  UNION {({im[k].result, im[k].resultType} \ {Undefined})
               \cup {im[k].operandIdList[j] : j \in 1..Len(im[k].operandIdList)} :
               k \in DOMAIN im}

\* C17: when assemble returns, the names of the text are bound to the ids
\* 1, 2, 3, ... in the order of their first mention, whatever position that
\* mention is in, header word 3 is 1 + the number of names, and every id in
\* the words returned is in 1 .. id bound - 1.
C17_NamesBoundInOrderOfMention ==
    (assembleCall.spirvText # Undefined /\ assembleCall.err = "")
    => /\ AssembleState(assembleCall.spirvText, Undefined, assembleCall.extImport).idMap
              = SequentialIds(NamesOf(assembleCall.spirvText))
       /\ assembleCall.words[4] = Word(1 + Len(NamesOf(assembleCall.spirvText)))
       /\ \A id \in IdsRead(assembleCall.words) :
              id[1] = 0 /\ id[2] \in 1..(Len(NamesOf(assembleCall.spirvText)))

\* the first k lines of a text
LinesUpTo(text, k) == Lines(SubSeq(Split(text, 10), 1, k))

\* the locals of a call of assemble after its k-th line
AfterLine(call, k) == AssembleState(LinesUpTo(call.spirvText, k), Undefined, call.extImport)

\* the number of words the k-th line has added
WordsOfLine(call, k) == Len(AfterLine(call, k).words) - Len(AfterLine(call, k - 1).words)

\* the first word the k-th line has added, as the line leaves it
FirstWordOfLine(call, k) == AfterLine(call, k).words[Len(AfterLine(call, k - 1).words) + 1]

\* the k-th line was encoded: no exception, and words were added
Encoded(call, k) == AfterLine(call, k).err = "" /\ WordsOfLine(call, k) > 0

\* C18: the length field in the first word of every line assemble encodes
\* is the number of words that line has added, a literal string with or
\* without spaces and the patch for a 64-bit literal included.
C18_LengthFieldIsWordsEmitted ==
    assembleCall.spirvText # Undefined
    => \A k \in 1..Len(Split(assembleCall.spirvText, 10)) :
           Encoded(assembleCall, k)
           => InstructionLength(FirstWordOfLine(assembleCall, k)) = WordsOfLine(assembleCall, k)

\* a string with every run of whitespace replaced by one space
RECURSIVE SingleSpaced(_)
SingleSpaced(str) ==
    IF str = <<>> THEN <<>>
    ELSE IF WhitespaceRun(str) >= 1
         THEN <<32>> \o SingleSpaced(SubSeq(str, WhitespaceRun(str) + 1, Len(str)))
         ELSE <<str[1]>> \o SingleSpaced(Tail(str))

\* a text with the tokens of every line separated by one space
SingleSpacedLines(text) ==
    Lines([k \in 1..Len(Split(text, 10)) |-> SingleSpaced(Split(text, 10)[k])])

\* a line that is empty, all whitespace, or a comment
BlankOrComment(line) == Trim(line) = <<>> \/ Trim(line)[1] = 59

\* the k-th line leaves the locals of assemble as they were
Skipped(call, k) ==
    /\ AfterLine(call, k).err = ""
    /\ AfterLine(call, k).words = AfterLine(call, k - 1).words

\* C19: a line that assemble reaches adds no words exactly when it is blank
\* or starts with ';'; any other line adds an instruction or raises; and a
\* text assembles as the same text with one space for every run of whitespace.
C19_OnlyBlankAndCommentLinesSkipped ==
    assembleCall.spirvText # Undefined
    => /\ \A k \in 1..Len(Split(assembleCall.spirvText, 10)) :
              AfterLine(assembleCall, k - 1).err = ""
              => IF BlankOrComment(Split(assembleCall.spirvText, 10)[k])
                 THEN Skipped(assembleCall, k)
                 ELSE AfterLine(assembleCall, k).err # "" \/ WordsOfLine(assembleCall, k) > 0
       /\ IndexOf(assembleCall.spirvText, 34) = -1
          => /\ assemble(SingleSpacedLines(assembleCall.spirvText), Undefined,
                         assembleCall.extImport).words = assembleCall.words
             /\ assemble(SingleSpacedLines(assembleCall.spirvText), Undefined,
                         assembleCall.extImport).err = assembleCall.err

\* the kinds of operand that are written as exactly one token
OneTokenKinds == {"IdResultType", "IdRef", "IdScope", "IdMemorySemantics", "LiteralInteger"}

\* the operands of an operation that are written after its name
WrittenOperands(opcode) ==
    SelectSeq(Instructions[opcode].operands, LAMBDA d : d.kind # "IdResult")

\* the operation takes a fixed number of tokens after its name
FixedTokenCount(opcode) ==
    \A k \in 1..Len(WrittenOperands(opcode)) :
        /\ WrittenOperands(opcode)[k].kind \in OneTokenKinds
        /\ WrittenOperands(opcode)[k].quantifier = ""

\* main.js:1313-1319: the line is not returned from as empty or as a comment
Read(line) == ~(Len(line) = 1 /\ line[1] = <<>>) /\ line[1] # <<59>>

\* main.js:1321, 1330: the token that names the operation
OpnameOf(line) == IF Len(line) >= 3 /\ line[2] = <<61>> THEN line[3] ELSE line[1]

\* the number of tokens after the name of the operation
TokensAfterOpname(line) == Len(line) - (IF Len(line) >= 3 /\ line[2] = <<61>> THEN 3 ELSE 1)

\* the line names no operation of the catalogue, or an operation with a
\* fixed number of operand tokens and has another number of them
Malformed(line) ==
    \/ NameToOpcode(OpnameOf(line)) = NoIndex
    \/ /\ NameToOpcode(OpnameOf(line)) # NoIndex
       /\ FixedTokenCount(NameToOpcode(OpnameOf(line)))
       /\ TokensAfterOpname(line) # Len(WrittenOperands(NameToOpcode(OpnameOf(line))))

\* C20: a line that assemble reads whose operation name is not in the
\* catalogue, or whose operand tokens are not as many as the operand kinds of
\* its operation require, raises an error, and a call that raises returns no
\* word stream.
C20_MalformedLineIsFatal ==
    assembleCall.spirvText # Undefined
    => /\ \A k \in 1..Len(Split(assembleCall.spirvText, 10)) :
              ( /\ AfterLine(assembleCall, k - 1).err = ""
                /\ Read(LineTokens(Split(assembleCall.spirvText, 10)[k]))
                /\ Malformed(LineTokens(Split(assembleCall.spirvText, 10)[k])) )
              => AfterLine(assembleCall, k).err # ""
       /\ assembleCall.err # "" => assembleCall.words = <<>>

-----------------------------------------------------------------------------
(* Decoding on the streams of Binaries, continued *)

\* the buffer is a header that validateHeader accepts, with id bound 1, and
\* nothing after it
HeaderOnly ==
    /\ binary.extraBytes = 0
    /\ Len(binary.words) = 5
    /\ HeaderError(binary) = ""
    /\ binary.words[4] = Word(1)

\* C22: a stream that is a valid header with id bound 1 and no instruction
\* word never ends in a fatal error, and at every point of its decode
\* instructionMap, resultToInstructionMap, branchMap, debugStringMap,
\* opNameMap and constantValues have no key and idConsumers has no consumer.
C22_HeaderOnlyStreamDecodesEmpty ==
    (pc # "idle" /\ HeaderOnly) =>
        /\ pc # "fatal" /\ error = ""
        /\ instructionMap = EmptyMap
        /\ resultToInstructionMap = EmptyMap
        /\ loc.branchMap = EmptyMap
        /\ debugStringMap = EmptyMap
        /\ opNameMap = EmptyMap
        /\ constantValues = EmptyMap
        /\ \A X \in 1..Len(idConsumers) : idConsumers[X] = <<>>

C22_Witness == pc = "done" /\ HeaderOnly /\ Len(idConsumers) = 1

-----------------------------------------------------------------------------
(* Imports of extended instruction sets *)

\* the first pass is at an OpExtInstImport
AtImport ==
    /\ pc = "pass1"
    /\ loc.i < Len(binary.words)
    /\ InstructionOpcode(ModuleAt(binary.words, loc.i)) = Op.OpExtInstImport

\* the name and the result id of the import the first pass is at
ImportName ==
    getLiteralString(Slice(binary.words, loc.i + 2,
                           loc.i + InstructionLength(ModuleAt(binary.words, loc.i))))

ImportResult == ModuleAt(binary.words, loc.i + 1)

\* C30: decoding an import whose name is one of the seven supported set
\* names binds its result id to the catalogue of that very set, a different
\* one for each name; decoding an import of any other name leaves every
\* binding as it was.
C30_ImportBindsItsOwnCatalogue ==
    [][(AtImport /\ pc' = "pass1") =>
          /\ \A s \in SupportedSets :
                 ImportName = s[1] =>
                     /\ ImportResult \in DOMAIN ResultToExtImport'
                     /\ ResultToExtImport'[ImportResult] = s[2]
          /\ ImportName \notin SupportedNames => ResultToExtImport' = ResultToExtImport]_vars

-----------------------------------------------------------------------------
(* Parameters of enumerants: OpLoad with a memory access word and           *)
(* OpDecorate with a decoration, each followed by the parameter words the   *)
(* matched enumerants declare                                               *)

ParameterWords == {Word(3), Word(4)}

ParameterisedInstructions ==
    {<<First(4, Op.OpLoad), Id(1), Id(2), Id(3)>>}
    \cup {<<First(5, Op.OpLoad), Id(1), Id(2), Id(3), w>> : w \in {Word(0), Word(1), Word(5)}}
    \cup {<<First(6, Op.OpLoad), Id(1), Id(2), Id(3), w, p>> :
             w \in {Word(2), Word(3), Word(8)}, p \in ParameterWords}
    \cup {<<First(7, Op.OpLoad), Id(1), Id(2), Id(3), w, p, q>> :
             w \in {Word(10), Word(11)}, p \in ParameterWords, q \in ParameterWords}
    \cup {<<First(3, Op.OpDecorate), Id(1), w>> : w \in {Word(0), Word(2)}}
    \cup {<<First(4, Op.OpDecorate), Id(1), w, p>> :
             w \in {Word(1), Word(30)}, p \in ParameterWords}
    \cup {<<First(4, Op.OpDecorate), Id(1), Word(11), b>> : b \in {Word(0), Word(1)}}
    \cup {<<First(5, Op.OpDecorate), Id(1), Word(6000), w, p>> :
             w \in {Word(0), Word(1)}, p \in ParameterWords}
    \cup {<<First(6, Op.OpDecorate), Id(1), Word(6000), w, p, q>> :
             w \in {Word(2), Word(8)}, p \in ParameterWords, q \in ParameterWords}

ParameterBinaries == {Buffer(ValidHeader \o ins, 0) : ins \in ParameterisedInstructions}

NextParameters ==
    \/ \E b \in ParameterBinaries : fileSelected(b)
    \/ Pass1Step
    \/ Pass1End
    \/ Pass2Step
    \/ Pass2End

SpecParameters == Init /\ [][NextParameters]_vars

\* the parameter descriptors of the parameter sets, one after the other
RECURSIVE Flatten(_)
Flatten(sets) == IF sets = <<>> THEN <<>> ELSE Head(sets) \o Flatten(Tail(sets))

\* the kinds that take one word and enqueue nothing
OneWordKinds == {"IdRef", "LiteralInteger", "IdScope", "IdMemorySemantics"}

IsEnumKind(kind) == kind \in DOMAIN Operands /\ Operands[kind].enumerants # <<>>

\* the parameter descriptors the matched enumerants of a word enqueue
Enqueued(d, w) ==
    IF IsEnumKind(d.kind)
    THEN Flatten(MatchedParameters(Operands[d.kind], MatchedEnumerants(Operands[d.kind], w)))
    ELSE <<>>

\* the descriptor that decodes each of the words when every enqueued
\* parameter is decoded first in, first out, before the next of the
\* instruction's own descriptors is used: own are the own descriptors left,
\* pending the parameters enqueued and not yet decoded.  fits says that each
\* word had a descriptor of one word, and matched when it was an enumerant.
RECURSIVE Layout(_, _, _)
Layout(own, pending, words) ==
    IF words = <<>> THEN [names |-> <<>>, pending |-> pending, fits |-> TRUE]
    ELSE IF pending = <<>> /\ own = <<>> THEN [names |-> <<>>, pending |-> <<>>, fits |-> FALSE]
    ELSE LET d == IF pending # <<>> THEN Head(pending) ELSE Head(own)
             rest == Layout(IF pending # <<>> THEN own ELSE Tail(own),
                            (IF pending # <<>> THEN Tail(pending) ELSE <<>>) \o Enqueued(d, words[1]),
                            Tail(words))
         IN  [names |-> <<OperandName(d)>> \o rest.names,
              pending |-> rest.pending,
              fits |-> /\ rest.fits
                       /\ d.quantifier # "*"
                       /\ \/ d.kind \in OneWordKinds
                          \/ /\ IsEnumKind(d.kind)
                             /\ MatchedEnumerants(Operands[d.kind], words[1]) # <<>>]

\* the descriptors of an instruction after those of its result type and result
OwnDescriptors(opcode) ==
    SelectSeq(Instructions[opcode].operands, LAMBDA d : d.kind \notin {"IdResultType", "IdResult"})

\* the layout of the operand words of the instruction the first pass is at
LayoutAt(i, opcode) ==
    Layout(OwnDescriptors(opcode), <<>>,
           Slice(binary.words,
                 i + 1 + (IF opcode \in OpcodesWithResultType THEN 1 ELSE 0)
                       + (IF opcode \in OpcodesWithResult THEN 1 ELSE 0),
                 i + InstructionLength(ModuleAt(binary.words, i))))

\* the first pass is at an instruction, inside the stream, that has exactly
\* the words its descriptors and the parameters they enqueue call for, and
\* some enumerant of it enqueues parameters
AtParameterised ==
    /\ pc = "pass1"
    /\ loc.i < Len(binary.words)
    /\ loc.i + InstructionLength(ModuleAt(binary.words, loc.i)) <= Len(binary.words)
    /\ InstructionOpcode(ModuleAt(binary.words, loc.i)) \in DOMAIN Instructions
    /\ Instructions[InstructionOpcode(ModuleAt(binary.words, loc.i))].hasOperands
    /\ LayoutAt(loc.i, InstructionOpcode(ModuleAt(binary.words, loc.i))).fits
    /\ LayoutAt(loc.i, InstructionOpcode(ModuleAt(binary.words, loc.i))).pending = <<>>

OperandNames(operandNameList) == [k \in 1..Len(operandNameList) |-> operandNameList[k].name]

-----------------------------------------------------------------------------
(* Nesting: a function whose body is a few merges, labels and others, and   *)
(* one whose body is IndentLimit selection merges                           *)

\* %2 = OpTypeVoid; %3 = OpFunction %2 None %2
FunctionStart ==
    <<First(2, Op.OpTypeVoid), Id(2), First(5, Op.OpFunction), Id(2), Id(3), Word(0), Id(2)>>

NestingSteps ==
    << \* OpSelectionMerge %1 None
       <<First(3, Op.OpSelectionMerge), Id(1), Word(0)>>,
       \* OpLoopMerge %4 %1 None
       <<First(4, Op.OpLoopMerge), Id(4), Id(1), Word(0)>>,
       \* %1 = OpLabel
       <<First(2, Op.OpLabel), Id(1)>>,
       \* %4 = OpLabel
       <<First(2, Op.OpLabel), Id(4)>>,
       \* OpNop
       <<First(1, Op.OpNop)>> >>

MaxNestingSteps == 3

RECURSIVE NestingBodies(_)
NestingBodies(n) ==
    IF n = 0 THEN {<<>>}
    ELSE NestingBodies(n - 1) \cup
         {s \o NestingSteps[k] : s \in NestingBodies(n - 1), k \in 1..Len(NestingSteps)}

\* the words n times over
Repeated(words, n) == [k \in 1..(n * Len(words)) |-> words[((k - 1) % Len(words)) + 1]]

NestingBinaries ==
    {Buffer(ValidHeader \o FunctionStart \o s, 0) : s \in NestingBodies(MaxNestingSteps)}
    \cup {Buffer(ValidHeader \o FunctionStart \o Repeated(NestingSteps[1], IndentLimit), 0)}

\* n turns of the loop of main.js:109, or as many as it takes: the loop is
\* left at the first exception and at the end of the stream
RECURSIVE Pass1Turns(_, _)
Pass1Turns(st, n) ==
    IF n = 0 \/ st.err # "" \/ ~(st.i < Len(st.module)) THEN st
    ELSE IF n = 1 THEN Pass1Instruction(st)
    ELSE Pass1Turns(Pass1Turns(st, n \div 2), n - (n \div 2))

\* the first IndentLimit turns of the first pass, which no event can
\* interrupt, as one step
Pass1Run ==
    /\ pc = "pass1"
    /\ loc.instructionCount = 0
    /\ loc.i < Len(binary.words)
    /\ Commit(Pass1Turns(State, IndentLimit), "pass1")

NextNesting ==
    \/ \E b \in NestingBinaries : fileSelected(b)
    \/ Pass1Run
    \/ Pass1Step
    \/ Pass1End
    \/ Pass2Step
    \/ Pass2End

SpecNesting == Init /\ [][NextNesting]_vars

\* the nesting stack after the instruction at word offset i, by the rule:
\* a merge pushes its merge target, a label equal to the top pops it
NestingAfter(stack, i) ==
    IF InstructionOpcode(ModuleAt(binary.words, i)) \in {Op.OpLoopMerge, Op.OpSelectionMerge}
        THEN Append(stack, ModuleAt(binary.words, i + 1))
    ELSE IF /\ InstructionOpcode(ModuleAt(binary.words, i)) = Op.OpLabel
            /\ stack # <<>>
            /\ stack[Len(stack)] = ModuleAt(binary.words, i + 1)
        THEN SubSeq(stack, 1, Len(stack) - 1)
    ELSE stack

\* C25: an instruction of the first pass after which the decode continues
\* leaves the nesting stack as the rule gives it, and the decode is fatal at
\* the instruction that brings the depth to IndentLimit.
C25_NestingStack ==
    [][Pass1Step =>
          /\ pc' = "pass1" => loc'.indentStack = NestingAfter(loc.indentStack, loc.i)
          /\ Len(NestingAfter(loc.indentStack, loc.i)) >= IndentLimit => pc' = "fatal"]_vars

\* the decode was stopped at depth IndentLimit, having gone on at one less
C25_Witness ==
    /\ pc = "fatal"
    /\ Len(loc.indentStack) = IndentLimit
    /\ loc.instructionCount = IndentLimit + 1

-----------------------------------------------------------------------------
(* The words of the stream a turn of the first pass reads by a fixed index *)

\* main.js:117-118: the result type and the result
ResultReads(i, opcode) ==
    (IF opcode \in OpcodesWithResultType THEN {i + 1} ELSE {})
    \cup (IF opcode \in OpcodesWithResult
          THEN {IF opcode \in OpcodesWithResultType THEN i + 2 ELSE i + 1} ELSE {})

\* main.js:148 and 151: the merge target, the label
NestingReads(i, opcode) ==
    IF opcode \in {Op.OpLoopMerge, Op.OpSelectionMerge, Op.OpLabel} THEN {i + 1} ELSE {}

\* main.js:205-219: the branch destinations
BranchReads(i, L, opcode) ==
    IF opcode = Op.OpBranch THEN {i + 1}
    ELSE IF opcode = Op.OpBranchConditional THEN {i + 2, i + 3}
    ELSE IF opcode = Op.OpSwitch THEN {i + 2} \cup {i + k : k \in {j \in 4..(L - 1) : j % 2 = 0}}
    ELSE {}

\* the operand offset at which the descriptors of an instruction reach a
\* pair kind, 0 if they do not
PairStart(opcode) ==
    IF opcode \in DOMAIN Instructions /\ Instructions[opcode].hasOperands
       /\ \E p \in 1..Len(Instructions[opcode].operands) :
              Instructions[opcode].operands[p].kind
                  \in {"PairLiteralIntegerIdRef", "PairIdRefLiteralInteger", "PairIdRefIdRef"}
    THEN CHOOSE p \in 1..Len(Instructions[opcode].operands) :
             Instructions[opcode].operands[p].kind
                 \in {"PairLiteralIntegerIdRef", "PairIdRefLiteralInteger", "PairIdRefIdRef"}
    ELSE 0

\* main.js:487-489: nextOperand and nextNextOperand, two words a turn while
\* operandOffset < instructionLength
PairReads(i, L, opcode) ==
    IF PairStart(opcode) = 0 THEN {}
    ELSE UNION {{i + k, i + k + 1} :
                   k \in {j \in PairStart(opcode)..(L - 1) : (j - PairStart(opcode)) % 2 = 0}}

\* main.js:615 and 620-633: the keys of opNameMap and constantValues
KeyReads(i, opcode) ==
    IF opcode = Op.OpName THEN {i + 1}
    ELSE IF opcode \in {Op.OpConstantTrue, Op.OpConstantFalse, Op.OpConstantNull,
                        Op.OpSpecConstantTrue, Op.OpSpecConstantFalse} THEN {i + 2}
    ELSE {}

\* the offsets of the instruction at i with length L that are in the stream
InsideInstruction(i, L) == {k \in i..(i + L - 1) : k >= 0 /\ k < Len(binary.words)}

\* C29: a turn of the first pass on the instruction at offset i with length
\* L reads its result type and result inside [i, i+L) and inside the stream,
\* and a turn that completes has read its merge target or label, its branch
\* destinations, its pairs and its name or constant key there too.
C29_ReadsInsideInstruction ==
    [][Pass1Step =>
          /\ ResultReads(loc.i, InstructionOpcode(ModuleAt(binary.words, loc.i)))
                 \subseteq InsideInstruction(loc.i, InstructionLength(ModuleAt(binary.words, loc.i)))
          /\ pc' = "pass1" =>
                 (NestingReads(loc.i, InstructionOpcode(ModuleAt(binary.words, loc.i)))
                  \cup BranchReads(loc.i, InstructionLength(ModuleAt(binary.words, loc.i)),
                                   InstructionOpcode(ModuleAt(binary.words, loc.i)))
                  \cup PairReads(loc.i, InstructionLength(ModuleAt(binary.words, loc.i)),
                                 InstructionOpcode(ModuleAt(binary.words, loc.i)))
                  \cup KeyReads(loc.i, InstructionOpcode(ModuleAt(binary.words, loc.i))))
                 \subseteq InsideInstruction(loc.i, InstructionLength(ModuleAt(binary.words, loc.i)))]_vars

-----------------------------------------------------------------------------
(* Input events while the grammar files load.  loadSpirv (spirv.js:248-253)  *)
(* starts nine requests; each callback fills its part of the catalogue and   *)
(* calls spirvJsonLoaded.  The listeners of unnamed/part_001 are attached    *)
(* when the script is read, so a drop or a change of fileSelectorTop can     *)
(* come between two callbacks.  A decode runs to its end before the next     *)
(* callback.  The streams dropped here hold no extended instruction, so      *)
(* what they read of the catalogue is spirv.json and the core grammar.       *)

\* spirv.js:66-94
spirvJsonLoaded(f) ==
    /\ pc \in {"idle", "done", "fatal"}
    /\ f \in GrammarFiles \ grammar.loaded
    /\ grammar' = [jsonRefCount |-> grammar.jsonRefCount + 1,
                   JsonIsReady |-> grammar.JsonIsReady
                                   \/ grammar.jsonRefCount + 1 = jsonRefTotal,
                   loaded |-> grammar.loaded \cup {f}]
    /\ UNCHANGED <<binary, pc, error, instructionMap, resultToInstructionMap, idConsumers,
                   opNameMap, debugStringMap, constantValues, ResultToExtImport, loc,
                   inputDiv, assembleCall, liveDagData, seenDagNodesSet, dagCall, tests>>

\* main.js:55-61 while spirv.Meta is the {} of spirv.js:26: header[0] ==
\* undefined is false, so the first assert of validateHeader fails
HeaderErrorNoMeta(b) ==
    IF ByteLength(b) % 4 # 0 THEN "assert: File is not 4 byte (32 bit) aligned"
    ELSE IF ~(Len(b.words) >= 5) THEN "assert: module less than 5 dwords"
    ELSE "assert: Magic Number doesn't match"

\* dropHandler and fileSelect (unnamed/part_001:46-84) hand the file to
\* fileSelected; neither reads spirv.JsonIsReady
dropHandler(data) ==
    /\ pc \in {"idle", "done", "fatal"}
    /\ IF "spirv.json" \in grammar.loaded
       THEN fileSelected(data)
       ELSE /\ inputDiv' = toggleDisassemblyInput(FALSE)
            /\ binary' = data
            /\ resetTracking
            /\ error' = HeaderErrorNoMeta(data)
            /\ pc' = "fatal"
            /\ idConsumers' = <<>>
            /\ loc' = InitLoc
            /\ UNCHANGED <<ResultToExtImport, assembleCall, pageVars>>

\* a turn of the first pass with the core grammar loaded
Pass1StepLoaded ==
    /\ "spirv.core.grammar.json" \in grammar.loaded
    /\ Pass1Step

\* main.js:119-124 while spirv.Instructions is the empty Map of spirv.js:29:
\* instructionInfo is undefined and reading its class throws
Pass1StepNoGrammar ==
    /\ pc = "pass1"
    /\ loc.i < Len(binary.words)
    /\ "spirv.core.grammar.json" \notin grammar.loaded
    /\ pc' = "fatal"
    /\ error' = "TypeError: instructionInfo is undefined"
    /\ UNCHANGED <<binary, instructionMap, resultToInstructionMap, idConsumers,
                   opNameMap, debugStringMap, constantValues, ResultToExtImport, loc,
                   inputDiv, assembleCall, pageVars>>

\* a header alone, a header with a wrong magic number, and
\* %2 = OpTypeVoid; OpDecorate %2 Block; %3 = OpConstantTrue %2
LoadBinaries ==
    {Buffer(ValidHeader, 0),
     Buffer(Header(<<1795, 516>>, Version, IdBound, Word(0)), 0),
     Buffer(ValidHeader \o Fragments[4] \o Fragments[5], 0)}

InitLoad ==
    /\ grammar = GrammarRequested
    /\ liveDagData = <<>>
    /\ seenDagNodesSet = {}
    /\ dagCall = NoClick
    /\ tests = TestsOff
    /\ binary = Buffer(<<>>, 0)
    /\ pc = "idle"
    /\ error = ""
    /\ instructionMap = EmptyMap
    /\ resultToInstructionMap = EmptyMap
    /\ idConsumers = <<>>
    /\ opNameMap = EmptyMap
    /\ debugStringMap = EmptyMap
    /\ constantValues = EmptyMap
    /\ ResultToExtImport = EmptyMap
    /\ loc = InitLoc
    /\ inputDiv = [display |-> "inline-block", value |-> <<>>]
    /\ assembleCall = NoCall

NextLoad ==
    \/ \E f \in GrammarFiles : spirvJsonLoaded(f)
    \/ \E b \in LoadBinaries : dropHandler(b)
    \/ Pass1StepLoaded
    \/ Pass1StepNoGrammar
    \/ Pass1End
    \/ Pass2Step
    \/ Pass2End

SpecLoad == InitLoad /\ [][NextLoad]_vars

\* C21: in every interleaving of the nine grammar callbacks with file drops
\* and file selections, no decode begins before all nine callbacks have
\* run, that is before spirv.JsonIsReady is true.
C21_NoDecodeBeforeGrammarLoaded ==
    [][(\E b \in LoadBinaries : dropHandler(b)) => grammar.JsonIsReady]_vars

-----------------------------------------------------------------------------
(* The graph of a click (main.js:823-965).  The handlers are attached by     *)
(* the post processing of a decode that returned true (main.js:762-764), so  *)
(* a click comes at pc = "done".  A node is [id, parentIds]; its text is     *)
(* not followed.  d is the state of one handler call: the node list, the     *)
(* seen set, the instructions expanded in order, the number of calls of      *)
(* fillDagBackward, and err # "" once an exception has ended the handler.    *)

\* the depth of recursion the script engine allows before it throws a
\* RangeError; more than any stream here has instructions
MaxCallStack == 8

DagStart(seen) == [live |-> <<>>, seen |-> seen, expanded |-> <<>>, calls |-> 0, err |-> ""]

\* main.js:853-891: nothing if the id is already a node; the element
\* #instruction_N of an instruction that does not exist is undefined
fillDagData(d, instruction, parents) ==
    IF d.err # "" THEN d
    ELSE IF \E k \in 1..Len(d.live) : d.live[k].id = instruction THEN d
    ELSE IF instruction \notin DOMAIN instructionMap
        THEN [d EXCEPT !.err = "TypeError: instructionDiv is undefined"]
    ELSE [d EXCEPT !.live = Append(@, [id |-> instruction, parentIds |-> parents])]

\* main.js:927-929 without the test of the seen set
DagParents_DedupOnly(parents, seen) ==
    SelectSeq([k \in 1..Len(parents) |-> <<k, parents[k]>>],
              LAMBDA e : \A j \in 1..(e[1] - 1) : parents[j] # e[2])

\* main.js:927-929: the first occurrence of each parent not yet seen,
\* as <<index, parent>> pairs
DagParents(parents, seen) ==
    SelectSeq([k \in 1..Len(parents) |-> <<k, parents[k]>>],
              LAMBDA e : (\A j \in 1..(e[1] - 1) : parents[j] # e[2]) /\ e[2] \notin seen)

\* if (operand): an id of 0 is taken as no operand
OperandGiven(operand) == operand # Undefined /\ operand # Word(0)

RECURSIVE fillDagBackward_NoSeenCheck(_, _, _, _)
RECURSIVE fillDagParents_NoSeenCheck(_, _, _, _)

\* fillDagBackward without the return at main.js:908-910
fillDagBackward_NoSeenCheck(d, instruction, operand, depth) ==
    IF d.err # "" THEN d
    ELSE IF depth > MaxCallStack
        THEN [d EXCEPT !.err = "RangeError: Maximum call stack size exceeded"]
    ELSE IF ~OperandGiven(operand) /\ instruction \notin DOMAIN instructionMap
        THEN [d EXCEPT !.calls = @ + 1, !.seen = @ \cup {instruction},
                       !.err = "TypeError: instructionMap.get(instruction) is undefined"]
    ELSE LET all == IF OperandGiven(operand)
                    THEN <<MapGetIndex(resultToInstructionMap, operand)>>
                    ELSE instructionMap[instruction].parentInstructions
             pairs == DagParents(all, d.seen \cup {instruction})
             parents == [k \in 1..Len(pairs) |-> pairs[k][2]]
         IN  fillDagParents_NoSeenCheck(
                 fillDagData([d EXCEPT !.calls = @ + 1, !.seen = @ \cup {instruction},
                                       !.expanded = Append(@, instruction)],
                             instruction, parents),
                 parents, 1, depth)

fillDagParents_NoSeenCheck(d, parents, k, depth) ==
    IF k > Len(parents) \/ d.err # "" THEN d
    ELSE fillDagParents_NoSeenCheck(
             fillDagBackward_NoSeenCheck(d, parents[k], Undefined, depth + 1),
             parents, k + 1, depth)

RECURSIVE fillDagBackward(_, _, _, _)
RECURSIVE fillDagParents(_, _, _, _)

\* main.js:904-935; entryCall is depth = 1, where the caller passes an
\* empty seen set
fillDagBackward(d, instruction, operand, depth) ==
    IF d.err # "" THEN d
    ELSE IF depth > MaxCallStack
        THEN [d EXCEPT !.err = "RangeError: Maximum call stack size exceeded"]
    ELSE IF instruction \in d.seen THEN [d EXCEPT !.calls = @ + 1]
    ELSE IF ~OperandGiven(operand) /\ instruction \notin DOMAIN instructionMap
        THEN [d EXCEPT !.calls = @ + 1, !.seen = @ \cup {instruction},
                       !.err = "TypeError: instructionMap.get(instruction) is undefined"]
    ELSE LET all == IF OperandGiven(operand)
                    THEN <<MapGetIndex(resultToInstructionMap, operand)>>
                    ELSE instructionMap[instruction].parentInstructions
             pairs == DagParents(all, d.seen \cup {instruction})
             parents == [k \in 1..Len(pairs) |-> pairs[k][2]]
         IN  fillDagParents(
                 fillDagData([d EXCEPT !.calls = @ + 1, !.seen = @ \cup {instruction},
                                       !.expanded = Append(@, instruction)],
                             instruction, parents),
                 parents, 1, depth)

\* main.js:932-934: the loop over the filtered parents
fillDagParents(d, parents, k, depth) ==
    IF k > Len(parents) \/ d.err # "" THEN d
    ELSE fillDagParents(fillDagBackward(d, parents[k], Undefined, depth + 1),
                        parents, k + 1, depth)

RECURSIVE fillDagConsumers(_, _, _, _)
\* main.js:960-963
fillDagConsumers(d, consumers, k, instruction) ==
    IF k > Len(consumers) THEN d
    ELSE fillDagConsumers(fillDagData(d, consumers[k], <<instruction>>),
                          consumers, k + 1, instruction)

\* main.js:939-941 and 830-849: clearDagData, then the traversal
displayDagOpcode(instruction) == fillDagBackward(DagStart({}), instruction, Undefined, 1)

\* main.js:948-950
displayDagOperand(operand, instruction) == fillDagBackward(DagStart({}), instruction, operand, 1)

\* main.js:956-963: idConsumers[result] of an id at or above the bound is
\* undefined and reading its length throws
displayDagResult(result, instruction) ==
    IF ~HasConsumers(idConsumers, result)
    THEN [fillDagData(DagStart(seenDagNodesSet), instruction, <<>>)
             EXCEPT !.err = "TypeError: consumers is undefined"]
    ELSE fillDagConsumers(fillDagData(DagStart(seenDagNodesSet), instruction, <<>>),
                          idConsumers[result[2] + 1], 1, instruction)

\* the handler ends: drawDag(liveDagData) is called unless it threw
Clicked(handler, instruction, d) ==
    /\ liveDagData' = d.live
    /\ seenDagNodesSet' = d.seen
    /\ dagCall' = [handler |-> handler, instruction |-> instruction,
                   expanded |-> d.expanded, calls |-> d.calls, err |-> d.err,
                   drawn |-> d.err = "", dagData |-> IF d.err = "" THEN d.live ELSE <<>>]
    /\ UNCHANGED <<binary, pc, error, instructionMap, resultToInstructionMap, idConsumers,
                   opNameMap, debugStringMap, constantValues, ResultToExtImport, loc,
                   inputDiv, assembleCall, grammar, tests>>

\* unnamed/part_001:113-119: a click on the opcode of an instruction
operationOnClick(instruction) ==
    /\ pc = "done"
    /\ instruction \in DOMAIN instructionMap
    /\ Clicked("displayDagOpcode", instruction, displayDagOpcode(instruction))

\* unnamed/part_001:86-111: a click on the k-th id of an instruction's
\* operandIdList (its result type included), or on its result for k = 0
idOnClick(instruction, k) ==
    /\ pc = "done"
    /\ instruction \in DOMAIN instructionMap
    /\ IF k = 0
       THEN /\ instructionMap[instruction].result # Undefined
            /\ Clicked("displayDagResult", instruction,
                       displayDagResult(instructionMap[instruction].result, instruction))
       ELSE /\ k \in 1..Len(instructionMap[instruction].operandIdList)
            /\ instructionMap[instruction].operandIdList[k] # Undefined
            /\ Clicked("displayDagOperand", instruction,
                       displayDagOperand(instructionMap[instruction].operandIdList[k],
                                         instruction))

\* %1 = OpTypeVoid
DagType == <<First(2, Op.OpTypeVoid), Id(1)>>

\* %2 = OpIAdd %1 %3 %3;  %3 = OpIAdd %1 %2 %4;  %3 = OpIAdd %1 %3 %2;
\* %4 = OpIAdd %1 %2 %3: parents named twice, parents that come later in
\* the stream, an instruction that consumes its own result, and an id
\* without a producer when the stream leaves one out
DagSteps ==
    << <<First(5, Op.OpIAdd), Id(1), Id(2), Id(3), Id(3)>>,
       <<First(5, Op.OpIAdd), Id(1), Id(3), Id(2), Id(4)>>,
       <<First(5, Op.OpIAdd), Id(1), Id(3), Id(3), Id(2)>>,
       <<First(5, Op.OpIAdd), Id(1), Id(4), Id(2), Id(3)>> >>

MaxDagSteps == 3

RECURSIVE DagBodies(_)
DagBodies(n) ==
    IF n = 0 THEN {<<>>}
    ELSE DagBodies(n - 1) \cup
         {s \o DagSteps[k] : s \in DagBodies(n - 1), k \in 1..Len(DagSteps)}

DagBinaries == {Buffer(ValidHeader \o DagType \o s, 0) : s \in DagBodies(MaxDagSteps)}

\* one file is followed per behaviour: every handler starts with
\* clearDagData and reads only the tables of the decode before it
firstFile(data) ==
    /\ pc = "idle"
    /\ fileSelected(data)

NextDag ==
    \/ \E b \in DagBinaries : firstFile(b)
    \/ Pass1Step
    \/ Pass1End
    \/ Pass2Step
    \/ Pass2End
    \/ \E I \in 0..MaxDagSteps : operationOnClick(I)
    \/ \E I \in 0..MaxDagSteps, k \in 0..3 : idOnClick(I, k)

SpecDag == Init /\ [][NextDag]_vars

NoRepeat(seq) == \A j, k \in 1..Len(seq) : j # k => seq[j] # seq[k]

RECURSIVE ListedParents(_, _)
\* the parents the first n expanded instructions list, duplicates counted
ListedParents(expanded, n) ==
    IF n = 0 THEN 0
    ELSE Len(instructionMap[expanded[n]].parentInstructions) + ListedParents(expanded, n - 1)

\* C26: within one traversal started by displayDagOpcode or
\* displayDagOperand, fillDagBackward expands each instruction at most once
\* and the traversal ends, whatever the parent relation: the recursion never
\* exhausts the call stack and makes at most one call for the clicked
\* instruction and one per listed parent of an expanded instruction.
C26_TraversalExpandsOnceAndEnds ==
    dagCall.handler \in {"displayDagOpcode", "displayDagOperand"} =>
        /\ NoRepeat(dagCall.expanded)
        /\ dagCall.err # "RangeError: Maximum call stack size exceeded"
        /\ \A k \in 1..Len(dagCall.expanded) : dagCall.expanded[k] \in DOMAIN instructionMap
        /\ dagCall.calls <= 1 + ListedParents(dagCall.expanded, Len(dagCall.expanded))

\* a traversal that met a cycle: some expanded instruction has a parent
\* expanded before it, itself included
C26_Witness ==
    /\ dagCall.handler = "displayDagOpcode"
    /\ dagCall.err = ""
    /\ Len(dagCall.expanded) = MaxDagSteps
    /\ \E j, k \in 1..Len(dagCall.expanded) :
           /\ j < k
           /\ Occurrences(dagCall.expanded[j],
                          instructionMap[dagCall.expanded[k]].parentInstructions) > 0
           /\ Occurrences(dagCall.expanded[k],
                          instructionMap[dagCall.expanded[k]].parentInstructions) > 0

NodeIds(dagData) == {dagData[k].id : k \in 1..Len(dagData)}

NodeOf(dagData, id) == dagData[CHOOSE k \in 1..Len(dagData) : dagData[k].id = id]

\* some non-empty set of nodes in which every node has a parent in the set
HasCycle(dagData) ==
    \E S \in SUBSET NodeIds(dagData) :
        /\ S # {}
        /\ \A n \in S : \E a \in 1..Len(NodeOf(dagData, n).parentIds) :
               NodeOf(dagData, n).parentIds[a] \in S

WellFormedDag(dagData) ==
    /\ \A j, k \in 1..Len(dagData) : j # k => dagData[j].id # dagData[k].id
    /\ \A k \in 1..Len(dagData) :
           /\ NoRepeat(dagData[k].parentIds)
           /\ \A a \in 1..Len(dagData[k].parentIds) :
                  /\ dagData[k].parentIds[a] # NoIndex
                  /\ dagData[k].parentIds[a] \in DOMAIN instructionMap
                  /\ dagData[k].parentIds[a] \in NodeIds(dagData)
    /\ ~HasCycle(dagData)

\* C28: the node list that displayDagOpcode, displayDagOperand and
\* displayDagResult hand to drawDag is a well-formed directed acyclic graph:
\* node ids are unique, no parent list holds a duplicate, every listed
\* parent is the index of an instruction that is a node of the list, never
\* the unresolved marker, and the parent edges hold no cycle.
C28_DrawnGraphIsWellFormed ==
    dagCall.drawn => WellFormedDag(dagCall.dagData)

\* a graph was drawn for an instruction on a cycle of the parent relation,
\* with a parent named twice by some node's instruction
C28_Witness ==
    /\ dagCall.drawn
    /\ Len(dagCall.dagData) >= 3
    /\ \E k \in 1..Len(dagCall.dagData) :
           /\ Len(dagCall.dagData[k].parentIds) > 0
           /\ \E p \in DOMAIN instructionMap :
                  Occurrences(p, instructionMap[dagCall.dagData[k].id].parentInstructions) = 2
    /\ \E k \in 1..Len(dagCall.dagData) :
           Occurrences(dagCall.instruction,
                       instructionMap[dagCall.dagData[k].id].parentInstructions) > 0

-----------------------------------------------------------------------------
(* The test harness (tests/tests.js).  With TEST_SUITE set, the last grammar *)
(* callback calls runTestSuite (spirv.js:72-74).  A file is its index in     *)
(* fileList; tests.pending holds the requests sent and not yet answered,     *)
(* which complete one at a time in any order; tests.requests and             *)
(* tests.parsed count, per file, the requests sent and the calls of          *)
(* parseBinaryStream; tests.tested counts the tests QUnit has finished.      *)
(* QUnit runs testFunction after the last blob of a batch has loaded and     *)
(* calls the testDone callback when the test has ended, by its return or by  *)
(* the exception of a decode.                                                *)

\* the batch size, standing for the 25 of tests.js:23
MaxShaders == 2

\* the longest fileList followed
MaxFiles == 3

\* %2 = OpTypeVoid under an accepted header, and a header with a wrong
\* magic number, which parseBinaryStream answers with an exception
TestBinaries ==
    {Buffer(ValidHeader \o Fragments[4], 0),
     Buffer(Header(<<1795, 516>>, Version, IdBound, Word(0)), 0)}

RECURSIVE FileLists(_)
FileLists(n) ==
    IF n = 0 THEN {<<>>}
    ELSE FileLists(n - 1) \cup
         {Append(s, b) : s \in {l \in FileLists(n - 1) : Len(l) = n - 1}, b \in TestBinaries}

\* tests.js:77-96; the batch is the files totalShaders+1 .. totalShaders+maxShaders
getShaders(t) ==
    IF t.totalShaders >= Len(t.fileList) THEN [t EXCEPT !.phase = "done"]
    ELSE LET max == IF t.totalShaders + t.maxShaders > Len(t.fileList)
                    THEN Len(t.fileList) - t.totalShaders
                    ELSE t.maxShaders
             batch == {k \in 1..Len(t.fileList) :
                           k > t.totalShaders /\ k <= t.totalShaders + max}
         IN  [t EXCEPT !.phase = IF max > 0 THEN "loading" ELSE "stalled",
                       !.maxShaders = max,
                       !.blobs = <<>>,
                       !.currentShaders = 0,
                       !.pending = batch,
                       !.next = 0,
                       !.requests = [k \in 1..Len(t.fileList) |->
                                         IF k \in batch THEN @[k] + 1 ELSE @[k]],
                       !.totalShaders = @ + max]

\* tests.js:100-112: the callback of the request for tests.json
runTestSuite(files) ==
    /\ tests.phase = "setup"
    /\ pc = "idle"
    /\ tests' = getShaders([tests EXCEPT !.fileList = files,
                                         !.requests = [k \in 1..Len(files) |-> 0],
                                         !.parsed = [k \in 1..Len(files) |-> 0]])
    /\ UNCHANGED <<binary, pc, error, instructionMap, resultToInstructionMap, idConsumers,
                   opNameMap, debugStringMap, constantValues, ResultToExtImport, loc,
                   inputDiv, assembleCall, grammar, liveDagData, seenDagNodesSet, dagCall>>

\* tests.js:55-74: ajaxOnLoad, then loadedTestBlob
ajaxOnLoad(file) ==
    /\ file \in tests.pending
    /\ tests' = [tests EXCEPT !.pending = @ \ {file},
                              !.blobs = Append(@, file),
                              !.currentShaders = @ + 1,
                              !.phase = IF tests.currentShaders + 1 >= tests.maxShaders
                                        THEN "test" ELSE @,
                              !.next = IF tests.currentShaders + 1 >= tests.maxShaders
                                       THEN 1 ELSE @]
    /\ UNCHANGED <<binary, pc, error, instructionMap, resultToInstructionMap, idConsumers,
                   opNameMap, debugStringMap, constantValues, ResultToExtImport, loc,
                   inputDiv, assembleCall, grammar, liveDagData, seenDagNodesSet, dagCall>>

\* a decode of the running test has thrown
TestThrew == tests.next > 1 /\ pc = "fatal"

\* tests.js:47-52: one turn of the loop of testFunction starts the decode
\* of the next blob; an exception of the decode before it has ended the loop
testFunction ==
    /\ tests.phase = "test"
    /\ pc \in {"idle", "done", "fatal"}
    /\ ~TestThrew
    /\ tests.next <= Len(tests.blobs)
    /\ parseBinaryStream(tests.fileList[tests.blobs[tests.next]])
    /\ tests' = [tests EXCEPT !.next = @ + 1,
                              !.parsed[tests.blobs[tests.next]] = @ + 1]
    /\ UNCHANGED <<ResultToExtImport, inputDiv, assembleCall, grammar, liveDagData,
                   seenDagNodesSet, dagCall>>

\* tests.js:32-44: the test has ended; the blobs are dropped and the next
\* batch requested
testDone ==
    /\ tests.phase = "test"
    /\ pc \in {"idle", "done", "fatal"}
    /\ TestThrew \/ tests.next > Len(tests.blobs)
    /\ tests' = getShaders([tests EXCEPT !.tested = @ + 1])
    /\ UNCHANGED <<binary, pc, error, instructionMap, resultToInstructionMap, idConsumers,
                   opNameMap, debugStringMap, constantValues, ResultToExtImport, loc,
                   inputDiv, assembleCall, grammar, liveDagData, seenDagNodesSet, dagCall>>

InitTests ==
    /\ grammar = GrammarLoaded
    /\ liveDagData = <<>>
    /\ seenDagNodesSet = {}
    /\ dagCall = NoClick
    /\ tests = [TestsOff EXCEPT !.phase = "setup", !.maxShaders = MaxShaders]
    /\ binary = Buffer(<<>>, 0)
    /\ pc = "idle"
    /\ error = ""
    /\ instructionMap = EmptyMap
    /\ resultToInstructionMap = EmptyMap
    /\ idConsumers = <<>>
    /\ opNameMap = EmptyMap
    /\ debugStringMap = EmptyMap
    /\ constantValues = EmptyMap
    /\ ResultToExtImport = EmptyMap
    /\ loc = InitLoc
    /\ inputDiv = [display |-> "inline-block", value |-> <<>>]
    /\ assembleCall = NoCall

NextTests ==
    \/ \E files \in FileLists(MaxFiles) : runTestSuite(files)
    \/ \E file \in 1..MaxFiles : ajaxOnLoad(file)
    \/ testFunction
    \/ testDone
    \/ Pass1Step
    \/ Pass1End
    \/ Pass2Step
    \/ Pass2End

SpecTests == InitTests /\ [][NextTests]_vars

\* the batches a list of n files makes
Batches(n) == (n + MaxShaders - 1) \div MaxShaders

\* every file requested once, at most a batch of blobs held, DONE only
\* after the test of the last batch, totalShaders within the list
HarnessRequestsAndBatches ==
    /\ \A k \in 1..Len(tests.fileList) : tests.requests[k] <= 1
    /\ Len(tests.blobs) <= MaxShaders
    /\ tests.totalShaders <= Len(tests.fileList)
    /\ tests.phase # "stalled"
    /\ tests.phase = "done" =>
           /\ \A k \in 1..Len(tests.fileList) : tests.requests[k] = 1
           /\ tests.tested = Batches(Len(tests.fileList))
           /\ tests.pending = {}

\* no blob decoded twice, and every blob decoded by the time of DONE
HarnessDecodesEveryBlob ==
    /\ \A k \in 1..Len(tests.fileList) : tests.parsed[k] <= 1
    /\ tests.phase = "done" => \A k \in 1..Len(tests.fileList) : tests.parsed[k] = 1

\* C27: given that every file request completes, the test harness requests
\* every file of fileList exactly once, holds at most one batch (25) of
\* loaded blobs at a time, passes each loaded blob to parseBinaryStream
\* exactly once, and reports DONE only after the test of the last batch has
\* finished; totalShaders never exceeds fileList.length.
C27_HarnessRunsEveryFileOnce ==
    /\ HarnessRequestsAndBatches
    /\ HarnessDecodesEveryBlob

=============================================================================
